---- MODULE Spec2Model ----
(***************************************************************************)
(* Model of the insights pipeline of the Spotify themes analyser data API: *)
(* InsightsService.get_top_emotions (tracks -> lyrics batch -> emotional   *)
(* profile batch -> aggregation), the two asyncio.gather batch fetchers    *)
(* LyricsService.get_lyrics_list and AnalysisService.get_emotional_profiles*)
(* and the emotion aggregator (_aggregate_emotions, _get_average_emotions, *)
(* _process_emotions); InsightsService.tag_lyrics_with_emotion;            *)
(* SpotifyDataService.get_top_genres; EndpointRequester; the /data/me and  *)
(* /data/tracks routes; SpotifyAuthService.refresh_tokens.  Each component *)
(* has its own specification over the same variables.  The pipeline is     *)
(* also run with any integer limit (SpecAnyLimit), with the order of       *)
(* completion observed (SpecOrder), under fairness (SpecLive), beside a    *)
(* lone requester call (SpecFetch), and as a sequence of invocations of    *)
(* one service instance (SpecRepeat).                                      *)
(*                                                                         *)
(* Numbers.  An EmotionPercentage is a float in [0, 1].  It is modelled as *)
(* a fixed-point integer in units of 1/One.  The input fractions of the    *)
(* model (Fractions) are dyadic rationals, for which Python's float        *)
(* addition is exact and float division by a small count is the correctly  *)
(* rounded quotient, so that round(total / count, 2) is the round-half-    *)
(* even of the exact quotient (an exact tie k/200 is then itself a float). *)
(* A rounded percentage is an integer number of hundredths.                *)
(***************************************************************************)
EXTENDS Integers, Sequences, FiniteSets, TLC

VARIABLES
    pc,                 \* position of the coroutine of the call at hand
    limit,              \* the limit argument of the call
    top_items,          \* the list get_top_items returned
    lyrics_tasks,       \* the tasks asyncio.gather awaits in get_lyrics_list
    lyrics_batch,       \* how get_lyrics_list ended (return value or raise)
    profile_tasks,      \* the tasks asyncio.gather awaits in get_emotional_profiles
    profiles_batch,     \* how get_emotional_profiles ended
    emotional_profiles, \* the argument of _process_emotions
    outcome,            \* how the called service method ended
    calls,              \* number of invocations of each collaborator
    log,                \* the logger.info lines of the batch fetchers
    call_args,          \* the arguments of the call at hand
    steps,              \* the calls tag_lyrics_with_emotion made, in order;
                        \* in get_top_emotions the tasks of the last gather in
                        \* their order of completion, where that is observed
    upstream,           \* what the upstream service holds for the call at hand
    top_artists,        \* how get_top_artists ended in get_top_genres
    response            \* the HTTP response a route produced

\* The variables of get_top_emotions and its batch fetchers.
insights_vars == <<pc, limit, top_items, lyrics_tasks, lyrics_batch, profile_tasks,
                   profiles_batch, emotional_profiles, outcome, calls, log>>

\* The variables of the other services and of the routes.
service_vars == <<call_args, steps, upstream, top_artists, response>>

vars == <<insights_vars, service_vars>>

----------------------------------------------------------------------------
(* Bounds of the model *)

MaxTracks == 3

MaxSamples == 2

MaxLimit == 3

MaxArtists == 3

MaxGenres == 2

----------------------------------------------------------------------------
(* Data *)

\* The fields of EmotionalProfile, in declaration order (model_dump order).
Emotions ==
    << "joy", "sadness", "anger", "fear", "love", "hope", "nostalgia",
       "loneliness", "confidence", "despair", "excitement", "mystery",
       "defiance", "gratitude", "spirituality" >>

EmotionSet == { Emotions[i] : i \in 1..Len(Emotions) }

\* The initial max_track track_id of _aggregate_emotions (Python None).
None == 0

\* The fixed-point representation of the EmotionPercentage 1.0.
One == 6400

\* Input fractions: 0, 1/256, 1/4, 1/2 (dyadic, so exact as floats).
Fractions == { 0, 25, 1600, 3200 }

\* Channels on which the model's input profiles may be non-zero.
ActiveEmotions == { "sadness", "defiance", "spirituality" }

\* The fractions an input profile may have on a channel.
ChannelFractions(emotion) ==
    CASE emotion \in {"sadness", "defiance"} -> { 0, 1600, 3200 }
      [] emotion = "spirituality" -> { 0, 25, 1600 }
      [] OTHER -> { 0 }

TrackIds == 1..MaxTracks

\* Input profiles of the aggregator: every channel present in every profile.
ProfileSet ==
    { [e \in EmotionSet |-> IF e \in ActiveEmotions THEN f[e] ELSE 0] :
        f \in { g \in [ActiveEmotions -> Fractions] :
                  \A e \in ActiveEmotions : g[e] \in ChannelFractions(e) } }

\* A SpotifyTrack as far as the pipeline reads it: id, name, artist.name.
Track(t) == [id |-> t, name |-> <<"Track", t>>, artist_name |-> <<"Artist", t>>]

\* The ids of a user's n top tracks: distinct, not in increasing order.
TopTrackIds(n) == [i \in 1..n |-> (i % n) + 1]

\* The lists get_top_items may return: 0..MaxTracks distinct tracks.
TrackLists == { TopTrackIds(n) : n \in 0..MaxTracks }

\* Outcomes of one EndpointRequester.post call as seen by a per-item fetch:
\* a JSON body that validates, one that fails validation, one that is no
\* mapping (TypeError on **data), status 404, status 401, any other failure
\* (timeout, request error, other status, bad JSON).
PostOutcomes == { "ok", "invalid", "not_mapping", "404", "401", "error" }

\* The outcomes that are not tied to the requested item.
SystemicOutcomes == { "401", "error" }

NoResult == [track_id |-> None]

----------------------------------------------------------------------------
(* Pure helpers of the language *)

\* Python s[:k] for any integer k.
\* The slice taken from the other end of the list: `s[-k:]`.
SliceFromEnd(s, k) ==
    LET n == IF k >= 0 THEN (IF k < Len(s) THEN k ELSE Len(s))
             ELSE (IF Len(s) + k > 0 THEN Len(s) + k ELSE 0)
    IN  SubSeq(s, Len(s) - n + 1, Len(s))

SliceTo(s, k) ==
    LET n == IF k >= 0 THEN (IF k < Len(s) THEN k ELSE Len(s))
             ELSE (IF Len(s) + k > 0 THEN Len(s) + k ELSE 0)
    IN  SubSeq(s, 1, n)

\* round(total / count, 2) in hundredths, total in units of 1/One:
\* round-half-even of the exact quotient (see the note on numbers above).
Round2(total, count) ==
    LET num == 100 * total
        den == One * count
        q   == num \div den
        r   == num % den
    IN  IF 2 * r < den THEN q
        ELSE IF 2 * r > den THEN q + 1
        ELSE IF q % 2 = 0 THEN q ELSE q + 1

----------------------------------------------------------------------------
(* The emotion aggregator: InsightsService._aggregate_emotions,            *)
(* _get_average_emotions, _process_emotions                                *)

\* total_emotions is a defaultdict; it is modelled as the sequence of its
\* entries in insertion order, each entry carrying its key as `name`.
\* (Every EmotionalProfile dumps all its fields in declaration order, so the
\* keys are inserted in the order of Emotions by the first analysis.)
DefaultEntry(emotion) ==
    [name |-> emotion, total |-> 0,
     max_track |-> [track_id |-> None, percentage |-> 0]]

\* Mutant of IsNewMax: >= in place of >.
IsNewMaxOrEqual(percentage, current) == percentage >= current

\* `percentage > total_emotions[emotion]["max_track"]["percentage"]`
IsNewMax(percentage, current) == percentage > current

\* The body of the inner loop of _aggregate_emotions on one entry.
AddPercentage(entry, percentage, track_id) ==
    [name |-> entry.name,
     total |-> entry.total + percentage,
     max_track |->
        IF IsNewMax(percentage, entry.max_track.percentage)
        THEN [track_id |-> track_id, percentage |-> percentage]
        ELSE entry.max_track]

\* total_emotions[emotion] after the first n analyses of the outer loop.
RECURSIVE EntryAfter(_, _, _)
EntryAfter(emotion, emotional_analyses, n) ==
    IF n = 0 THEN DefaultEntry(emotion)
    ELSE AddPercentage(EntryAfter(emotion, emotional_analyses, n - 1),
                       emotional_analyses[n].emotional_profile[emotion],
                       emotional_analyses[n].track_id)

aggregate_emotions(emotional_analyses) ==
    IF Len(emotional_analyses) = 0 THEN <<>>
    ELSE [k \in 1..Len(Emotions) |->
            EntryAfter(Emotions[k], emotional_analyses, Len(emotional_analyses))]

\* Mutant of AveragePercentage: the quotient truncated to 2 decimals.
AveragePercentageTruncated(total, result_count) ==
    (100 * total) \div (One * result_count)

\* `round(info["total"] / result_count, 2)`
AveragePercentage(total, result_count) == Round2(total, result_count)

\* Mutant of get_average_emotions: without the `is not None` filter.
get_average_emotions_unfiltered(total_emotions, result_count) ==
    [i \in 1..Len(total_emotions) |->
        [name |-> total_emotions[i].name,
         percentage |-> AveragePercentage(total_emotions[i].total, result_count),
         track_id |-> total_emotions[i].max_track.track_id]]

\* The list comprehension of _get_average_emotions: entries whose max_track
\* track_id is None are skipped, the others kept in dict order.
get_average_emotions(total_emotions, result_count) ==
    LET kept == SelectSeq(total_emotions,
                          LAMBDA info : info.max_track.track_id /= None)
    IN  [i \in 1..Len(kept) |->
            [name |-> kept[i].name,
             percentage |-> AveragePercentage(kept[i].total, result_count),
             track_id |-> kept[i].max_track.track_id]]

\* Mutant of SortedByPercentageDesc: ascending stable sort, then reversed
\* (equal percentages end in reverse order).
SortedAscendingThenReversed(average_emotions) ==
    LET n == Len(average_emotions)
        Place(i) == Cardinality({ j \in 1..n :
                        \/ average_emotions[j].percentage > average_emotions[i].percentage
                        \/ /\ average_emotions[j].percentage = average_emotions[i].percentage
                           /\ j > i }) + 1
    IN  [r \in 1..n |-> average_emotions[CHOOSE i \in 1..n : Place(i) = r]]

\* `sorted(average_emotions, key=lambda emotion: emotion.percentage,
\*  reverse=True)`: a stable sort; an element goes behind every element of
\* greater key and behind the equal-keyed elements that precede it.
SortedByPercentageDesc(average_emotions) ==
    LET n == Len(average_emotions)
        Place(i) == Cardinality({ j \in 1..n :
                        \/ average_emotions[j].percentage > average_emotions[i].percentage
                        \/ /\ average_emotions[j].percentage = average_emotions[i].percentage
                           /\ j < i }) + 1
    IN  [r \in 1..n |-> average_emotions[CHOOSE i \in 1..n : Place(i) = r]]

\* Mutant of process_emotions: the sums, maxima and sample count of the
\* previous aggregation are still there when the next one starts.
process_emotions_accumulating(profiles) ==
    LET carried == IF Len(steps) > 0 /\ steps[Len(steps)].service = "get_top_emotions"
                   THEN steps[Len(steps)].request
                   ELSE <<>>
        all == carried \o profiles
    IN  SortedByPercentageDesc(get_average_emotions(aggregate_emotions(all), Len(all)))

\* Mutant of process_emotions: the sums are divided by the number of top
\* tracks fetched.
process_emotions_over_top_tracks(profiles) ==
    SortedByPercentageDesc(
        get_average_emotions(aggregate_emotions(profiles), Len(top_items.value)))

process_emotions(profiles) ==
    SortedByPercentageDesc(
        get_average_emotions(aggregate_emotions(profiles), Len(profiles)))

----------------------------------------------------------------------------
(* Exceptions *)

\* The direct base class of each exception class of the services.
BaseClass(exc) ==
    CASE exc = "SpotifyDataServiceUnauthorisedException" -> "SpotifyDataServiceException"
      [] exc = "SpotifyDataServiceNotFoundException" -> "SpotifyDataServiceException"
      [] exc = "LyricsServiceNotFoundException" -> "LyricsServiceException"
      [] exc = "EndpointRequesterUnauthorisedException" -> "EndpointRequesterException"
      [] exc = "EndpointRequesterNotFoundException" -> "EndpointRequesterException"
      [] OTHER -> "Exception"

IsSubclass(exc, class) == exc = class \/ BaseClass(exc) = class

Returned(value) == [state |-> "returned", value |-> value, exc |-> "", message |-> ""]

Raised(exc, message) == [state |-> "raised", value |-> <<>>, exc |-> exc, message |-> message]

NotYet == [state |-> "pending", value |-> <<>>, exc |-> "", message |-> ""]

\* Mutant of handle_exception: SpotifyDataServiceException is not caught.
handle_exception_without_spotify(exc, message) ==
    IF \E c \in {"LyricsServiceException", "AnalysisServiceException"} :
          IsSubclass(exc, c)
    THEN Raised("InsightsServiceException", "Service failure - " \o message)
    ELSE IF exc \in {"ValidationError", "AttributeError"}
    THEN Raised("InsightsServiceException", "Data validation failure - " \o message)
    ELSE Raised(exc, message)

\* The two except clauses of get_top_emotions; any other exception
\* (InsightsServiceException of a stage check included) passes through.
handle_exception(exc, message) ==
    IF \E c \in {"SpotifyDataServiceException", "LyricsServiceException",
                 "AnalysisServiceException"} : IsSubclass(exc, c)
    THEN Raised("InsightsServiceException", "Service failure - " \o message)
    ELSE IF exc \in {"ValidationError", "AttributeError"}
    THEN Raised("InsightsServiceException", "Data validation failure - " \o message)
    ELSE Raised(exc, message)

\* Mutant of check_data_not_empty: the check never raises.
check_data_not_empty_skipped(data, label) == Returned(<<>>)

\* Mutant of check_data_not_empty: the label is not put in the message.
check_data_not_empty_unlabelled(data, label) ==
    IF Len(data) = 0
    THEN Raised("InsightsServiceException",
                "No data found. Cannot proceed further with analysis.")
    ELSE Returned(<<>>)

\* Mutant of check_data_not_empty: only the top tracks are checked.
check_data_not_empty_tracks_only(data, label) ==
    IF Len(data) = 0 /\ label = "top tracks"
    THEN Raised("InsightsServiceException",
                "No " \o label \o " found. Cannot proceed further with analysis.")
    ELSE Returned(<<>>)

\* InsightsService._check_data_not_empty
check_data_not_empty(data, label) ==
    IF Len(data) = 0
    THEN Raised("InsightsServiceException",
                "No " \o label \o " found. Cannot proceed further with analysis.")
    ELSE Returned(<<>>)

----------------------------------------------------------------------------
(* The per-item fetches and the batch fetchers *)

Item(type, value, message) == [type |-> type, value |-> value, message |-> message]

PendingItem == Item("pending", NoResult, "")

NewTask(request) == [request |-> request, done |-> FALSE, post |-> "none", item |-> PendingItem]

\* The lyrics the lyrics API holds for a track.
UpstreamLyrics(track_id) == <<"Lyrics for Track", track_id>>

\* The emotional profile the analysis API computes for a track's lyrics.
UpstreamProfile(track_id) ==
    [e \in EmotionSet |->
        CASE e = "sadness" -> 1600
          [] e = "defiance" -> IF track_id % 2 = 0 THEN 3200 ELSE 1600
          [] e = "spirituality" -> IF track_id = 1 THEN 25 ELSE 0
          [] OTHER -> 0]

\* LyricsService.get_lyrics for one outcome of endpoint_requester.post:
\* the item asyncio.gather collects for the task.
get_lyrics(lyrics_request, post) ==
    CASE post = "ok" ->
            Item("LyricsResponse",
                 [track_id |-> lyrics_request.track_id,
                  artist_name |-> lyrics_request.artist_name,
                  track_title |-> lyrics_request.track_title,
                  lyrics |-> UpstreamLyrics(lyrics_request.track_id)], "")
      [] post = "invalid" ->
            Item("LyricsServiceException", NoResult,
                 "Failed to convert API response to LyricsResponse object")
      [] post = "404" ->
            Item("LyricsServiceNotFoundException", NoResult, "Requested lyrics not found")
      [] post \in {"401", "error"} ->
            Item("LyricsServiceException", NoResult, "Request to Lyrics API failed")
      [] OTHER -> Item("TypeError", NoResult, "argument after ** must be a mapping")

\* AnalysisService._get_emotional_profile for one outcome of the post.
get_emotional_profile(request, post) ==
    CASE post = "ok" ->
            Item("EmotionalProfileResponse",
                 [track_id |-> request.track_id,
                  lyrics |-> request.lyrics,
                  emotional_profile |-> UpstreamProfile(request.track_id)], "")
      [] post = "invalid" ->
            Item("AnalysisServiceException", NoResult,
                 "Failed to convert API response to EmotionalProfile object")
      [] post \in {"404", "401", "error"} ->
            Item("AnalysisServiceException", NoResult, "Request to Analysis API failed")
      [] OTHER -> Item("TypeError", NoResult, "argument after ** must be a mapping")

IsException(item) ==
    item.type \notin {"pending", "LyricsResponse", "EmotionalProfileResponse",
                      "SpotifyTrack", "EmotionalTagsResponse"}

\* Mutant of GatherDone: gather without return_exceptions ends at the first
\* exception, while siblings are still running.
GatherDoneAtFirstException(tasks) ==
    \/ \A i \in 1..Len(tasks) : tasks[i].done
    \/ \E i \in 1..Len(tasks) : tasks[i].done /\ IsException(tasks[i].item)

\* Mutant of GatherDone: the await resumes as soon as one task is done
\* (asyncio.wait with FIRST_COMPLETED).
GatherDoneAtFirstCompleted(tasks) ==
    \/ Len(tasks) = 0
    \/ \E i \in 1..Len(tasks) : tasks[i].done

\* `await asyncio.gather(*tasks, ...)` resumes when every task is done.
GatherDone(tasks) == \A i \in 1..Len(tasks) : tasks[i].done

\* Mutant of Gather: return_exceptions=False, the first exception is raised.
GatherRaising(tasks) ==
    LET failed == { i \in 1..Len(tasks) : IsException(tasks[i].item) }
    IN  IF failed = {}
        THEN [raised |-> FALSE, items |-> [i \in 1..Len(tasks) |-> tasks[i].item],
              exc |-> "", message |-> ""]
        ELSE LET i == CHOOSE i \in failed : \A j \in failed : i <= j
             IN  [raised |-> TRUE, items |-> <<>>,
                  exc |-> tasks[i].item.type, message |-> tasks[i].item.message]

\* Mutant of Gather: results in the order of completion (as_completed).
GatherInCompletionOrder(tasks) ==
    [raised |-> FALSE, items |-> [k \in 1..Len(steps) |-> tasks[steps[k]].item],
     exc |-> "", message |-> ""]

\* `asyncio.gather(*tasks, return_exceptions=True)`: results and exceptions
\* alike, in the order of the tasks.
Gather(tasks) ==
    [raised |-> FALSE, items |-> [i \in 1..Len(tasks) |-> tasks[i].item],
     exc |-> "", message |-> ""]

\* Mutant of SuccessfulResults: the successes in reverse order.
SuccessfulResultsReversed(items, class) ==
    LET ok == SelectSeq(items, LAMBDA it : it.type = class)
    IN  [i \in 1..Len(ok) |-> ok[Len(ok) + 1 - i].value]

\* `[item for item in results if isinstance(item, <Response class>)]`
SuccessfulResults(items, class) ==
    LET ok == SelectSeq(items, LAMBDA it : it.type = class)
    IN  [i \in 1..Len(ok) |-> ok[i].value]

\* Mutant of BatchFetch: a batch without any success is reported as an error.
BatchFetchFailingWhenEmpty(tasks, class) ==
    LET g == Gather(tasks)
        ok == SuccessfulResults(g.items, class)
    IN  IF Len(ok) = 0 /\ Len(tasks) > 0
        THEN Raised("BatchFetchError", "every request of the batch failed")
        ELSE Returned(ok)

\* A batch fetcher from the gather on: LyricsService.get_lyrics_list and
\* AnalysisService.get_emotional_profiles have the same body.
BatchFetch(tasks, class) ==
    LET g == Gather(tasks)
    IN  IF g.raised THEN Raised(g.exc, g.message)
        ELSE Returned(SuccessfulResults(g.items, class))

get_lyrics_list(tasks) == BatchFetch(tasks, "LyricsResponse")

get_emotional_profiles(tasks) == BatchFetch(tasks, "EmotionalProfileResponse")

\* The line logger.info(f"Retrieved ... {len(successful)}/{len(results)} tracks.")
LogLine(what, batch, tasks) == [what |-> what, successes |-> Len(batch.value), total |-> Len(tasks)]

----------------------------------------------------------------------------
(* InsightsService.get_top_emotions *)

NoCalls ==
    [get_top_items |-> 0, get_lyrics_list |-> 0, get_lyrics |-> 0,
     get_emotional_profiles |-> 0, get_emotional_profile |-> 0,
     process_emotions |-> 0, get_item_by_id |-> 0, get_emotional_tags |-> 0,
     client_request |-> 0]

\* How SpotifyDataService.get_top_items fails: 401, any other request
\* failure, a response body without "items" (not caught by the service).
TopItemsFailures ==
    { [post |-> "401", exc |-> "SpotifyDataServiceUnauthorisedException",
       message |-> "Invalid Spotify API access token"],
      [post |-> "error", exc |-> "SpotifyDataServiceException",
       message |-> "Failed to make request to Spotify API"],
      [post |-> "no_items", exc |-> "KeyError", message |-> "'items'"] }

\* Mutant of LyricsRequest: artist name and track title change places.
LyricsRequestSwapped(entry) ==
    [track_id |-> entry.id, artist_name |-> entry.name, track_title |-> entry.artist_name]

LyricsRequest(entry) ==
    [track_id |-> entry.id, artist_name |-> entry.artist_name, track_title |-> entry.name]

EmotionalProfileRequest(entry) == [track_id |-> entry.track_id, lyrics |-> entry.lyrics]

\* A route that has not answered; an answered one has a status code and a body.
NoResponse == [status_code |-> 0, detail |-> "", body |-> <<>>]

\* No call is under way, no artist list has been fetched and no route has
\* answered.
ServiceInit ==
    /\ call_args = <<>>
    /\ steps = <<>>
    /\ upstream = <<>>
    /\ top_artists = NotYet
    /\ response = NoResponse

Init ==
    /\ pc = "start"
    /\ limit \in 1..MaxLimit
    /\ top_items = NotYet
    /\ lyrics_tasks = <<>>
    /\ lyrics_batch = NotYet
    /\ profile_tasks = <<>>
    /\ profiles_batch = NotYet
    /\ emotional_profiles = <<>>
    /\ outcome = NotYet
    /\ calls = NoCalls
    /\ log = <<>>
    /\ ServiceInit

\* get_top_emotions is called and awaits spotify_data_service.get_top_items.
CallGetTopItems ==
    /\ pc = "start"
    /\ pc' = "await_top_items"
    /\ calls' = [calls EXCEPT !.get_top_items = @ + 1]
    /\ UNCHANGED service_vars
    /\ UNCHANGED <<limit, top_items, lyrics_tasks, lyrics_batch, profile_tasks,
                   profiles_batch, emotional_profiles, outcome, log>>

\* get_top_items raises: the except clauses of get_top_emotions decide.
GetTopItemsRaises ==
    /\ pc = "await_top_items"
    /\ \E f \in TopItemsFailures :
        /\ top_items' = [Raised(f.exc, f.message) EXCEPT !.value = <<f.post>>]
        /\ outcome' = handle_exception(f.exc, f.message)
    /\ pc' = "done"
    /\ UNCHANGED service_vars
    /\ UNCHANGED <<limit, lyrics_tasks, lyrics_batch, profile_tasks,
                   profiles_batch, emotional_profiles, calls, log>>

\* get_top_items returns: the "top tracks" check, then the lyrics requests
\* are built and get_lyrics_list creates its tasks and awaits the gather.
GetTopItemsReturns ==
    /\ pc = "await_top_items"
    /\ \E s \in TrackLists :
        LET items == [i \in 1..Len(s) |-> Track(s[i])]
            check == check_data_not_empty(items, "top tracks")
        IN  /\ top_items' = Returned(items)
            /\ IF check.state = "raised"
               THEN /\ outcome' = handle_exception(check.exc, check.message)
                    /\ pc' = "done"
                    /\ UNCHANGED <<lyrics_tasks, calls>>
               ELSE /\ lyrics_tasks' =
                          [i \in 1..Len(items) |-> NewTask(LyricsRequest(items[i]))]
                    /\ calls' = [calls EXCEPT !.get_lyrics_list = @ + 1,
                                              !.get_lyrics = @ + Len(items)]
                    /\ pc' = "await_lyrics"
                    /\ UNCHANGED outcome
    /\ UNCHANGED service_vars
    /\ UNCHANGED <<limit, lyrics_batch, profile_tasks, profiles_batch,
                   emotional_profiles, log>>

\* The order of completion is a history of the run, not a value the program
\* holds: it is kept only in the runs that observe it (SpecOrder).
ObservesOrder == DOMAIN call_args = {"observe"}

\* `steps` once task i has completed.
CompletionRecorded(i) == IF ObservesOrder THEN Append(steps, i) ELSE steps

\* Mutant of LyricsTaskCompletes: a get_lyrics that failed is invoked again.
LyricsTaskCompletesWithRetry ==
    /\ pc = "await_lyrics"
    /\ \E i \in 1..Len(lyrics_tasks), post \in PostOutcomes :
        /\ ~lyrics_tasks[i].done \/ IsException(lyrics_tasks[i].item)
        /\ lyrics_tasks' = [lyrics_tasks EXCEPT ![i] =
              [@ EXCEPT !.done = TRUE, !.post = post,
                        !.item = get_lyrics(lyrics_tasks[i].request, post)]]
        /\ calls' = IF lyrics_tasks[i].done
                    THEN [calls EXCEPT !.get_lyrics = @ + 1]
                    ELSE calls
        /\ steps' = CompletionRecorded(i)
    /\ UNCHANGED <<call_args, upstream, top_artists, response>>
    /\ UNCHANGED <<pc, limit, top_items, lyrics_batch, profile_tasks,
                   profiles_batch, emotional_profiles, outcome, log>>

\* The post of one get_lyrics task completes; the task ends with a
\* LyricsResponse or an exception.  Any unfinished task may be the next to
\* complete; where the order of completion is observed, `steps` keeps it
\* for the gather's tasks until the next gather starts.
LyricsTaskCompletes ==
    /\ pc = "await_lyrics"
    /\ \E i \in 1..Len(lyrics_tasks), post \in PostOutcomes :
        /\ ~lyrics_tasks[i].done
        /\ lyrics_tasks' = [lyrics_tasks EXCEPT ![i] =
              [@ EXCEPT !.done = TRUE, !.post = post,
                        !.item = get_lyrics(lyrics_tasks[i].request, post)]]
        /\ steps' = CompletionRecorded(i)
    /\ UNCHANGED <<call_args, upstream, top_artists, response>>
    /\ UNCHANGED <<pc, limit, top_items, lyrics_batch, profile_tasks,
                   profiles_batch, emotional_profiles, outcome, calls, log>>

\* The gather of get_lyrics_list resumes: get_lyrics_list returns, the
\* "lyrics" check, then the profile requests are built and
\* get_emotional_profiles creates its tasks and awaits the gather.
LyricsBatchReturns ==
    /\ pc = "await_lyrics"
    /\ GatherDone(lyrics_tasks)
    /\ LET batch == get_lyrics_list(lyrics_tasks)
           check == check_data_not_empty(batch.value, "lyrics")
       IN  /\ lyrics_batch' = batch
           /\ log' = IF batch.state = "returned"
                     THEN Append(log, LogLine("lyrics", batch, lyrics_tasks))
                     ELSE log
           /\ IF batch.state = "raised"
              THEN /\ outcome' = handle_exception(batch.exc, batch.message)
                   /\ pc' = "done"
                   /\ UNCHANGED <<profile_tasks, calls, steps>>
              ELSE IF check.state = "raised"
              THEN /\ outcome' = handle_exception(check.exc, check.message)
                   /\ pc' = "done"
                   /\ UNCHANGED <<profile_tasks, calls, steps>>
              ELSE /\ profile_tasks' =
                         [i \in 1..Len(batch.value) |->
                             NewTask(EmotionalProfileRequest(batch.value[i]))]
                   /\ calls' = [calls EXCEPT
                                  !.get_emotional_profiles = @ + 1,
                                  !.get_emotional_profile = @ + Len(batch.value)]
                   /\ steps' = <<>>
                   /\ pc' = "await_profiles"
                   /\ UNCHANGED outcome
    /\ UNCHANGED <<call_args, upstream, top_artists, response>>
    /\ UNCHANGED <<limit, top_items, lyrics_tasks, profiles_batch, emotional_profiles>>

\* The post of one _get_emotional_profile task completes.
ProfileTaskCompletes ==
    /\ pc = "await_profiles"
    /\ \E i \in 1..Len(profile_tasks), post \in PostOutcomes :
        /\ ~profile_tasks[i].done
        /\ profile_tasks' = [profile_tasks EXCEPT ![i] =
              [@ EXCEPT !.done = TRUE, !.post = post,
                        !.item = get_emotional_profile(profile_tasks[i].request, post)]]
        /\ steps' = CompletionRecorded(i)
    /\ UNCHANGED <<call_args, upstream, top_artists, response>>
    /\ UNCHANGED <<pc, limit, top_items, lyrics_tasks, lyrics_batch,
                   profiles_batch, emotional_profiles, outcome, calls, log>>

\* The gather of get_emotional_profiles resumes: it returns, the
\* "emotional profiles" check, _process_emotions, the [:limit] slice, return.
ProfilesBatchReturns ==
    /\ pc = "await_profiles"
    /\ GatherDone(profile_tasks)
    /\ LET batch == get_emotional_profiles(profile_tasks)
           check == check_data_not_empty(batch.value, "emotional profiles")
       IN  /\ profiles_batch' = batch
           /\ log' = IF batch.state = "returned"
                     THEN Append(log, LogLine("analysis", batch, profile_tasks))
                     ELSE log
           /\ IF batch.state = "raised"
              THEN /\ outcome' = handle_exception(batch.exc, batch.message)
                   /\ UNCHANGED <<emotional_profiles, calls>>
              ELSE IF check.state = "raised"
              THEN /\ outcome' = handle_exception(check.exc, check.message)
                   /\ UNCHANGED <<emotional_profiles, calls>>
              ELSE /\ emotional_profiles' = batch.value
                   /\ calls' = [calls EXCEPT !.process_emotions = @ + 1]
                   /\ outcome' = Returned(SliceTo(process_emotions(batch.value), limit))
    /\ pc' = "done"
    /\ UNCHANGED service_vars
    /\ UNCHANGED <<limit, top_items, lyrics_tasks, lyrics_batch, profile_tasks>>

Next ==
    \/ CallGetTopItems
    \/ GetTopItemsRaises
    \/ GetTopItemsReturns
    \/ LyricsTaskCompletes
    \/ LyricsBatchReturns
    \/ ProfileTaskCompletes
    \/ ProfilesBatchReturns

Spec == Init /\ [][Next]_vars

\* get_top_emotions with the order of completion of the concurrent fetches
\* observed, for the smallest and the largest limit.
InitOrder ==
    /\ pc = "start"
    /\ limit \in {1, MaxLimit}
    /\ top_items = NotYet
    /\ lyrics_tasks = <<>>
    /\ lyrics_batch = NotYet
    /\ profile_tasks = <<>>
    /\ profiles_batch = NotYet
    /\ emotional_profiles = <<>>
    /\ outcome = NotYet
    /\ calls = NoCalls
    /\ log = <<>>
    /\ call_args = [observe |-> "order of completion"]
    /\ steps = <<>>
    /\ upstream = <<>>
    /\ top_artists = NotYet
    /\ response = NoResponse

SpecOrder == InitOrder /\ [][Next]_vars

\* get_top_emotions where every upstream call eventually completes and the
\* event loop eventually resumes a coroutine whose await is over: the
\* top-items request ends (raising or returning), every task of a gather
\* ends, and a gather whose tasks are all done resumes its caller.
Fairness ==
    /\ WF_vars(CallGetTopItems)
    /\ WF_vars(GetTopItemsRaises \/ GetTopItemsReturns)
    /\ WF_vars(LyricsTaskCompletes)
    /\ WF_vars(LyricsBatchReturns)
    /\ WF_vars(ProfileTaskCompletes)
    /\ WF_vars(ProfilesBatchReturns)

SpecLive == Init /\ [][Next]_vars /\ Fairness

\* get_top_emotions(self, access_token, time_range, limit: int): the service
\* takes any integer; the limits below are the ones no route would pass.
NonPositiveLimits == {0} \cup {0 - k : k \in 1..MaxLimit}

\* get_top_emotions called directly, with a positive limit or not.
InitAnyLimit ==
    /\ pc = "start"
    /\ limit \in NonPositiveLimits \cup (1..MaxLimit)
    /\ top_items = NotYet
    /\ lyrics_tasks = <<>>
    /\ lyrics_batch = NotYet
    /\ profile_tasks = <<>>
    /\ profiles_batch = NotYet
    /\ emotional_profiles = <<>>
    /\ outcome = NotYet
    /\ calls = NoCalls
    /\ log = <<>>
    /\ ServiceInit

SpecAnyLimit == InitAnyLimit /\ [][Next]_vars

----------------------------------------------------------------------------
(* The aggregator on its own: _process_emotions applied to any list of     *)
(* samples drawn from ProfileSet, then the [:limit] slice.                 *)

\* Track ids of the samples fall with the input position.
SampleTrackId(position) == MaxSamples + 1 - position

InitAgg ==
    /\ pc = "agg_input"
    /\ limit \in 1..MaxLimit
    /\ top_items = NotYet
    /\ lyrics_tasks = <<>>
    /\ lyrics_batch = NotYet
    /\ profile_tasks = <<>>
    /\ profiles_batch = NotYet
    /\ emotional_profiles = <<>>
    /\ outcome = NotYet
    /\ calls = NoCalls
    /\ log = <<>>
    /\ ServiceInit

\* One more EmotionalProfileResponse is put on the input list.
AggAddSample ==
    /\ pc = "agg_input"
    /\ Len(emotional_profiles) < MaxSamples
    /\ \E p \in ProfileSet :
        LET t == SampleTrackId(Len(emotional_profiles) + 1)
        IN  emotional_profiles' = Append(emotional_profiles,
               [track_id |-> t, lyrics |-> UpstreamLyrics(t), emotional_profile |-> p])
    /\ UNCHANGED service_vars
    /\ UNCHANGED <<pc, limit, top_items, lyrics_tasks, lyrics_batch, profile_tasks,
                   profiles_batch, outcome, calls, log>>

\* `self._process_emotions(emotional_profiles=emotional_profiles)[:limit]`
AggRun ==
    /\ pc = "agg_input"
    /\ outcome' = Returned(SliceTo(process_emotions(emotional_profiles), limit))
    /\ calls' = [calls EXCEPT !.process_emotions = @ + 1]
    /\ pc' = "done"
    /\ UNCHANGED service_vars
    /\ UNCHANGED <<limit, top_items, lyrics_tasks, lyrics_batch, profile_tasks,
                   profiles_batch, emotional_profiles, log>>

NextAgg == AggAddSample \/ AggRun

SpecAgg == InitAgg /\ [][NextAgg]_vars

----------------------------------------------------------------------------
(* SpotifyDataService.get_top_genres and the /me/top/genres route *)

\* The genre labels the upstream attaches to artists.
GenreNames == {"rock", "metal", "emo"}

\* The sequences of at most n labels without repetition.
RECURSIVE GenreListsUpTo(_)
GenreListsUpTo(n) ==
    IF n = 0 THEN {<<>>}
    ELSE LET shorter == GenreListsUpTo(n - 1)
             longer == { Append(genres, genre) :
                           genres \in { g \in shorter : Len(g) = n - 1 },
                           genre \in GenreNames }
         IN  shorter \cup { g \in longer :
                              \A i, j \in 1..Len(g) : i # j => g[i] # g[j] }

\* The `genres` an artist may carry.
GenreLists == GenreListsUpTo(MaxGenres)

\* SpotifyArtist, reduced to its id and its genres.
Artist(position, genres) == [id |-> position, genres |-> genres]

\* `limit: Annotated[int, Field(ge=1)] = 10` of the /me/top/genres route.
DefaultGenresLimit == 10

\* `[genre for artist in top_artists for genre in artist.genres]`
RECURSIVE AllGenres(_, _)
AllGenres(artists, n) ==
    IF n = 0 THEN <<>> ELSE AllGenres(artists, n - 1) \o artists[n].genres

\* Mutant of CountGenres: `genres_map[genre] = 1`.
RECURSIVE CountGenresOnce(_, _)
CountGenresOnce(all_genres, n) ==
    IF n = 0 THEN <<>>
    ELSE LET genres_map == CountGenresOnce(all_genres, n - 1)
             genre == all_genres[n]
         IN  IF \E i \in 1..Len(genres_map) : genres_map[i].name = genre
             THEN genres_map
             ELSE Append(genres_map, [name |-> genre, count |-> 1])

\* `genres_map = defaultdict(int)`, `for genre in all_genres:
\* genres_map[genre] += 1`, after the first n labels: the items of the dict
\* in insertion order (a key is inserted when it is first seen).
RECURSIVE CountGenres(_, _)
CountGenres(all_genres, n) ==
    IF n = 0 THEN <<>>
    ELSE LET genres_map == CountGenres(all_genres, n - 1)
             genre == all_genres[n]
         IN  IF \E i \in 1..Len(genres_map) : genres_map[i].name = genre
             THEN [i \in 1..Len(genres_map) |->
                     IF genres_map[i].name = genre
                     THEN [genres_map[i] EXCEPT !.count = @ + 1]
                     ELSE genres_map[i]]
             ELSE Append(genres_map, [name |-> genre, count |-> 0 + 1])

\* Mutant of SortedByCountDesc: equal counts come out in reverse order.
SortedByCountDescUnstable(top_genres) ==
    LET n == Len(top_genres)
        Place(i) == Cardinality({ j \in 1..n :
                        \/ top_genres[j].count > top_genres[i].count
                        \/ /\ top_genres[j].count = top_genres[i].count
                           /\ j > i }) + 1
    IN  [r \in 1..n |-> top_genres[CHOOSE i \in 1..n : Place(i) = r]]

\* `top_genres.sort(key=lambda genre: genre.count, reverse=True)`: a stable
\* sort, equal counts keep their order.
SortedByCountDesc(top_genres) ==
    LET n == Len(top_genres)
        Place(i) == Cardinality({ j \in 1..n :
                        \/ top_genres[j].count > top_genres[i].count
                        \/ /\ top_genres[j].count = top_genres[i].count
                           /\ j < i }) + 1
    IN  [r \in 1..n |-> top_genres[CHOOSE i \in 1..n : Place(i) = r]]

\* Mutant of get_top_genres: an empty artist list is an error.
get_top_genres_failing_when_empty(artists) ==
    IF artists = <<>>
    THEN Raised("SpotifyDataServiceException",
                "No top artists found. Cannot proceed with analysis.")
    ELSE LET all_genres == AllGenres(artists, Len(artists))
         IN  Returned(SortedByCountDesc(CountGenres(all_genres, Len(all_genres))))

\* SpotifyDataService.get_top_genres once get_top_artists has returned.
get_top_genres(artists) ==
    IF artists = <<>>
    THEN Returned(<<>>)
    ELSE LET all_genres == AllGenres(artists, Len(artists))
         IN  Returned(SortedByCountDesc(CountGenres(all_genres, Len(all_genres))))

\* The parameters of SpotifyDataService.get_top_genres (besides self).
get_top_genres_parameters == {"access_token", "time_range"}

\* The keyword arguments the /me/top/genres route calls it with.
RouteKeywords == {"access_token", "time_range", "limit"}

\* Python binds the keyword arguments of a call to the parameters of the
\* function: a keyword that names no parameter raises TypeError before the
\* body runs.
BindsArguments(parameters, keywords) == keywords \subseteq parameters

\* The exceptions get_top_artists raises (_get_top_items_data, _create_artist).
TopArtistsFailures ==
    { Raised("SpotifyDataServiceUnauthorisedException", "Invalid Spotify API access token"),
      Raised("SpotifyDataServiceException", "Failed to make request to Spotify API"),
      Raised("SpotifyDataServiceException", "No items key present in API data") }

\* The route a request is for.
RouteCall(route) == [route |-> route]

HTTPResponse(status_code, detail, body) ==
    [status_code |-> status_code, detail |-> detail, body |-> body]

\* main.global_exception_handler
global_exception_handler ==
    HTTPResponse(500, "Something went wrong. Please try again later.", <<>>)

\* Mutant of MeRouteResponse: no clause for the unauthorised exception.
MeRouteResponseWithoutUnauthorised(result, detail) ==
    IF result.state = "returned" THEN HTTPResponse(200, "", result.value)
    ELSE IF IsSubclass(result.exc, "SpotifyDataServiceException")
         THEN HTTPResponse(500, detail, <<>>)
    ELSE global_exception_handler

\* The try/except of a /data/me route around a result of the service:
\* `detail` is the route's own message for SpotifyDataServiceException.
MeRouteResponse(result, detail) ==
    IF result.state = "returned" THEN HTTPResponse(200, "", result.value)
    ELSE IF IsSubclass(result.exc, "SpotifyDataServiceUnauthorisedException")
         THEN HTTPResponse(401, "Invalid access token", <<>>)
    ELSE IF IsSubclass(result.exc, "SpotifyDataServiceException")
         THEN HTTPResponse(500, detail, <<>>)
    ELSE global_exception_handler

InitGenres ==
    /\ pc = "genres_input"
    /\ limit = DefaultGenresLimit
    /\ top_items = NotYet
    /\ lyrics_tasks = <<>>
    /\ lyrics_batch = NotYet
    /\ profile_tasks = <<>>
    /\ profiles_batch = NotYet
    /\ emotional_profiles = <<>>
    /\ outcome = NotYet
    /\ calls = NoCalls
    /\ log = <<>>
    /\ ServiceInit

\* The upstream holds one more top artist of the user.
GenresAddArtist ==
    /\ pc = "genres_input"
    /\ Len(upstream) < MaxArtists
    /\ \E genres \in GenreLists :
        upstream' = Append(upstream, Artist(Len(upstream) + 1, genres))
    /\ UNCHANGED insights_vars
    /\ UNCHANGED <<call_args, steps, top_artists, response>>

\* get_top_genres(access_token, time_range) is called, get_top_artists
\* returns the artists and the ranking is computed.
GetTopGenresReturns ==
    /\ pc = "genres_input"
    /\ top_artists' = Returned(upstream)
    /\ outcome' = get_top_genres(upstream)
    /\ pc' = "done"
    /\ UNCHANGED <<limit, top_items, lyrics_tasks, lyrics_batch, profile_tasks,
                   profiles_batch, emotional_profiles, calls, log>>
    /\ UNCHANGED <<call_args, steps, upstream, response>>

\* get_top_genres(access_token, time_range) is called and get_top_artists
\* raises: the exception leaves get_top_genres as it is.
GetTopGenresRaises ==
    /\ pc = "genres_input"
    /\ \E failure \in TopArtistsFailures :
        /\ top_artists' = failure
        /\ outcome' = failure
    /\ pc' = "done"
    /\ UNCHANGED <<limit, top_items, lyrics_tasks, lyrics_batch, profile_tasks,
                   profiles_batch, emotional_profiles, calls, log>>
    /\ UNCHANGED <<call_args, steps, upstream, response>>

\* POST /data/me/top/genres with a limit: the route calls
\* `spotify_data_service.get_top_genres(access_token=..., time_range=...,
\* limit=limit)`.
RouteGetTopGenres ==
    /\ pc \in {"genres_input", "route_start"}
    /\ \E k \in 1..MaxLimit \cup {DefaultGenresLimit} : limit' = k
    /\ outcome' = IF BindsArguments(get_top_genres_parameters, RouteKeywords)
                  THEN get_top_genres(upstream)
                  ELSE Raised("TypeError", "got an unexpected keyword argument 'limit'")
    /\ response' = MeRouteResponse(outcome', "Failed to retrieve the user's top genres")
    /\ call_args' = RouteCall("/me/top/genres")
    /\ pc' = "answered"
    /\ UNCHANGED <<top_items, lyrics_tasks, lyrics_batch, profile_tasks,
                   profiles_batch, emotional_profiles, calls, log>>
    /\ UNCHANGED <<steps, upstream, top_artists>>

NextGenres ==
    GenresAddArtist \/ GetTopGenresReturns \/ GetTopGenresRaises \/ RouteGetTopGenres

SpecGenres == InitGenres /\ [][NextGenres]_vars

----------------------------------------------------------------------------
(* One service instance serving several invocations, one after another:    *)
(* a first invocation, any invocations in between, and an invocation that  *)
(* gets the upstream responses of the first again.  `steps` keeps every    *)
(* invocation with what the upstream gave it and what it returned.         *)

\* The emotional profiles the analysis stage hands to the aggregation: the
\* responses for one to MaxSamples distinct tracks, in any order.
RepeatProfiles ==
    { [i \in 1..Len(ids) |->
          [track_id |-> ids[i], lyrics |-> UpstreamLyrics(ids[i]),
           emotional_profile |-> UpstreamProfile(ids[i])]] :
        ids \in { s \in UNION { [1..n -> TrackIds] : n \in 1..MaxSamples } :
                    \A i, j \in 1..Len(s) : i # j => s[i] # s[j] } }

\* The top artists get_top_artists returns: none, one or two artists of one
\* genre each.
RepeatArtists ==
    { [i \in 1..Len(genres) |-> Artist(i, <<genres[i]>>)] :
        genres \in UNION { [1..n -> GenreNames] : n \in 0..2 } }

\* What one invocation receives from the upstream services.
RepeatInputs ==
    { [service |-> "get_top_emotions", request |-> profiles] : profiles \in RepeatProfiles }
    \cup { [service |-> "get_top_genres", request |-> artists] : artists \in RepeatArtists }

\* The invocation from the upstream responses on: the aggregation of
\* get_top_emotions with its slice, or the counting of get_top_genres.
Invoke(input) ==
    IF input.service = "get_top_emotions"
    THEN Returned(SliceTo(process_emotions(input.request), limit))
    ELSE get_top_genres(input.request)

\* The invocation is served and recorded.
Served(input) ==
    /\ outcome' = Invoke(input)
    /\ steps' = Append(steps, [service |-> input.service, request |-> input.request,
                               result |-> Invoke(input)])
    /\ UNCHANGED <<limit, top_items, lyrics_tasks, lyrics_batch, profile_tasks,
                   profiles_batch, emotional_profiles, calls, log>>
    /\ UNCHANGED <<call_args, upstream, top_artists, response>>

InitRepeat ==
    /\ pc = "repeat_first"
    /\ limit \in 1..MaxLimit
    /\ top_items = NotYet
    /\ lyrics_tasks = <<>>
    /\ lyrics_batch = NotYet
    /\ profile_tasks = <<>>
    /\ profiles_batch = NotYet
    /\ emotional_profiles = <<>>
    /\ outcome = NotYet
    /\ calls = NoCalls
    /\ log = <<>>
    /\ ServiceInit

\* The first invocation.
RepeatFirst ==
    /\ pc = "repeat_first"
    /\ \E input \in RepeatInputs : Served(input)
    /\ pc' = "repeat_between"

\* An invocation in between, with whatever the upstream gives it.
RepeatBetween ==
    /\ pc = "repeat_between"
    /\ Len(steps) = 1
    /\ \E input \in RepeatInputs : Served(input)
    /\ UNCHANGED pc

\* An invocation that receives what the first invocation received.
RepeatAgain ==
    /\ pc = "repeat_between"
    /\ Served([service |-> steps[1].service, request |-> steps[1].request])
    /\ pc' = "done"

NextRepeat == RepeatFirst \/ RepeatBetween \/ RepeatAgain

SpecRepeat == InitRepeat /\ [][NextRepeat]_vars

----------------------------------------------------------------------------
(* InsightsService.tag_lyrics_with_emotion *)

\* The lyrics the analysis API returns with the spans of an emotion tagged.
UpstreamTags(lyrics, emotion) == <<"Tagged", emotion, lyrics>>

\* SpotifyDataService.get_item_by_id(item_type=TRACK) for one outcome of the
\* get: _create_item turns a body that is no dict or fails validation into
\* SpotifyDataServiceException.
get_item_by_id(item_id, get) ==
    CASE get = "ok" -> Item("SpotifyTrack", Track(item_id), "")
      [] get = "401" ->
            Item("SpotifyDataServiceUnauthorisedException", NoResult,
                 "Invalid Spotify API access token")
      [] get = "404" ->
            Item("SpotifyDataServiceNotFoundException", NoResult,
                 "Requested Spotify item not found")
      [] get = "error" ->
            Item("SpotifyDataServiceException", NoResult,
                 "Failed to make request to Spotify API")
      [] get = "invalid" ->
            Item("SpotifyDataServiceException", NoResult,
                 "Failed to create TopItem from Spotify API data")
      [] OTHER ->
            Item("SpotifyDataServiceException", NoResult, "Spotify data not of type dict")

\* AnalysisService.get_emotional_tags for one outcome of the post.
get_emotional_tags(tags_request, post) ==
    CASE post = "ok" ->
            Item("EmotionalTagsResponse",
                 [track_id |-> tags_request.track_id,
                  emotion |-> tags_request.emotion,
                  lyrics |-> UpstreamTags(tags_request.lyrics, tags_request.emotion)], "")
      [] post = "invalid" ->
            Item("AnalysisServiceException", NoResult,
                 "Failed to convert API response to EmotionalTagsResponse object")
      [] post \in {"404", "401", "error"} ->
            Item("AnalysisServiceException", NoResult, "Request to Analysis API failed")
      [] OTHER -> Item("TypeError", NoResult, "argument after ** must be a mapping")

\* `EmotionalTagsRequest(track_id=track_id, emotion=emotion,
\*  lyrics=lyrics_response.lyrics)`
EmotionalTagsRequest(track_id, emotion, lyrics_response) ==
    [track_id |-> track_id, emotion |-> emotion, lyrics |-> lyrics_response.lyrics]

\* A call of a collaborator: awaited until its result is there.
Step(service, arguments) == [service |-> service, request |-> arguments, result |-> PendingItem]

\* The awaited call of the last step ends with `item`.
Completed(item) == [steps EXCEPT ![Len(steps)].result = item]

InitTag ==
    /\ pc = "tag_start"
    /\ limit = DefaultGenresLimit
    /\ top_items = NotYet
    /\ lyrics_tasks = <<>>
    /\ lyrics_batch = NotYet
    /\ profile_tasks = <<>>
    /\ profiles_batch = NotYet
    /\ emotional_profiles = <<>>
    /\ outcome = NotYet
    /\ calls = NoCalls
    /\ log = <<>>
    /\ call_args \in [track_id : TrackIds, emotion : EmotionSet]
    /\ steps = <<>>
    /\ upstream = <<>>
    /\ top_artists = NotYet
    /\ response = NoResponse

\* tag_lyrics_with_emotion is called and awaits get_item_by_id.
TagCallGetItemById ==
    /\ pc = "tag_start"
    /\ steps' = <<Step("get_item_by_id", [item_id |-> call_args.track_id])>>
    /\ calls' = [calls EXCEPT !.get_item_by_id = @ + 1]
    /\ pc' = "await_item"
    /\ UNCHANGED <<limit, top_items, lyrics_tasks, lyrics_batch, profile_tasks,
                   profiles_batch, emotional_profiles, outcome, log>>
    /\ UNCHANGED <<call_args, upstream, top_artists, response>>

\* get_item_by_id ends: on a track the coroutine builds the LyricsRequest and
\* awaits get_lyrics, on an exception it leaves through the except clauses.
TagGetItemByIdCompletes ==
    /\ pc = "await_item"
    /\ \E get \in PostOutcomes :
        LET item == get_item_by_id(call_args.track_id, get)
        IN  IF IsException(item)
            THEN /\ steps' = Completed(item)
                 /\ outcome' = handle_exception(item.type, item.message)
                 /\ pc' = "done"
                 /\ UNCHANGED calls
            ELSE /\ steps' = Append(Completed(item),
                                    Step("get_lyrics", LyricsRequest(item.value)))
                 /\ calls' = [calls EXCEPT !.get_lyrics = @ + 1]
                 /\ pc' = "await_lyrics"
                 /\ UNCHANGED outcome
    /\ UNCHANGED <<limit, top_items, lyrics_tasks, lyrics_batch, profile_tasks,
                   profiles_batch, emotional_profiles, log>>
    /\ UNCHANGED <<call_args, upstream, top_artists, response>>

\* get_lyrics ends: on a LyricsResponse the coroutine builds the
\* EmotionalTagsRequest and awaits get_emotional_tags.
TagGetLyricsCompletes ==
    /\ pc = "await_lyrics"
    /\ \E post \in PostOutcomes :
        LET item == get_lyrics(steps[Len(steps)].request, post)
        IN  IF IsException(item)
            THEN /\ steps' = Completed(item)
                 /\ outcome' = handle_exception(item.type, item.message)
                 /\ pc' = "done"
                 /\ UNCHANGED calls
            ELSE /\ steps' = Append(Completed(item),
                                    Step("get_emotional_tags",
                                         EmotionalTagsRequest(call_args.track_id,
                                                              call_args.emotion, item.value)))
                 /\ calls' = [calls EXCEPT !.get_emotional_tags = @ + 1]
                 /\ pc' = "await_tags"
                 /\ UNCHANGED outcome
    /\ UNCHANGED <<limit, top_items, lyrics_tasks, lyrics_batch, profile_tasks,
                   profiles_batch, emotional_profiles, log>>
    /\ UNCHANGED <<call_args, upstream, top_artists, response>>

\* get_emotional_tags ends: its response is returned.
TagGetEmotionalTagsCompletes ==
    /\ pc = "await_tags"
    /\ \E post \in PostOutcomes :
        LET item == get_emotional_tags(steps[Len(steps)].request, post)
        IN  /\ steps' = Completed(item)
            /\ outcome' = IF IsException(item)
                          THEN handle_exception(item.type, item.message)
                          ELSE Returned(item.value)
    /\ pc' = "done"
    /\ UNCHANGED <<limit, top_items, lyrics_tasks, lyrics_batch, profile_tasks,
                   profiles_batch, emotional_profiles, calls, log>>
    /\ UNCHANGED <<call_args, upstream, top_artists, response>>

NextTag ==
    \/ TagCallGetItemById
    \/ TagGetItemByIdCompletes
    \/ TagGetLyricsCompletes
    \/ TagGetEmotionalTagsCompletes

SpecTag == InitTag /\ [][NextTag]_vars

----------------------------------------------------------------------------
(* EndpointRequester *)

\* RequestMethod
RequestMethods == {"GET", "POST"}

\* The status codes the upstreams answer with.
StatusCodes == {200, 201, 204, 301, 304, 400, 401, 403, 404, 409, 429, 500, 502, 503}

\* The bodies of the responses: JSON texts of an object with the expected
\* fields, of an object without them, of an array and of null, an empty body
\* and a text that is no JSON.
Bodies == {"{...}", "{}", "[...]", "null", "", "<html>"}

\* The exceptions httpx.AsyncClient.request raises, with their base classes.
HttpxBase(exc) ==
    CASE exc \in {"ConnectTimeout", "ReadTimeout"} -> "TimeoutException"
      [] exc \in {"TimeoutException", "ConnectError", "UnsupportedProtocol"} -> "TransportError"
      [] exc \in {"TransportError", "TooManyRedirects"} -> "RequestError"
      [] exc \in {"RequestError", "HTTPStatusError"} -> "HTTPError"
      [] OTHER -> "Exception"

\* isinstance of an httpx exception: the class or one of its ancestors.
RECURSIVE IsHttpx(_, _)
IsHttpx(exc, class) ==
    \/ exc = class
    \/ exc # "Exception" /\ IsHttpx(HttpxBase(exc), class)

RequestExceptions ==
    {"InvalidURL", "ConnectTimeout", "ReadTimeout", "ConnectError",
     "UnsupportedProtocol", "TooManyRedirects"}

\* What the transport does with a request: it raises, or it answers.
TransportRaises(exc) == [exc |-> exc, status_code |-> 0, body |-> ""]

TransportAnswers(status_code, body) == [exc |-> "", status_code |-> status_code, body |-> body]

Transports ==
    { TransportRaises(exc) : exc \in RequestExceptions }
        \cup { TransportAnswers(status_code, body) : status_code \in StatusCodes, body \in Bodies }

\* httpx.Response.raise_for_status raises HTTPStatusError unless the status
\* is a 2XX.
RaisesForStatus(status_code) == status_code \div 100 # 2

\* httpx.Response.json: json.loads of the body; JSONDecodeError when the body
\* is no JSON text.
IsJson(body) == body \in {"{...}", "{}", "[...]", "null"}

\* The decoded value: its Python type and whether the expected fields are there.
JsonValue(body) ==
    CASE body = "{...}" -> [type |-> "dict", complete |-> TRUE]
      [] body = "{}" -> [type |-> "dict", complete |-> FALSE]
      [] body = "[...]" -> [type |-> "list", complete |-> FALSE]
      [] OTHER -> [type |-> "NoneType", complete |-> FALSE]

\* Mutant of handle_http_status_error: the last branch logs and does not raise.
handle_http_status_error_silent(status_code) ==
    IF status_code = 401
    THEN Raised("EndpointRequesterUnauthorisedException", "Unauthorised request - HTTPStatusError")
    ELSE IF status_code = 404
    THEN Raised("EndpointRequesterNotFoundException", "Resource not found - HTTPStatusError")
    ELSE Returned([type |-> "NoneType", complete |-> FALSE])

\* EndpointRequester._handle_http_status_error: every branch raises.
handle_http_status_error(status_code) ==
    IF status_code = 401
    THEN Raised("EndpointRequesterUnauthorisedException", "Unauthorised request - HTTPStatusError")
    ELSE IF status_code = 404
    THEN Raised("EndpointRequesterNotFoundException", "Resource not found - HTTPStatusError")
    ELSE Raised("EndpointRequesterException", "Request failed - HTTPStatusError")

\* What the try block of _request ends with: the decoded body or the
\* exception raised by client.request, raise_for_status or res.json.
TryRequest(transport) ==
    IF transport.exc # "" THEN Raised(transport.exc, transport.exc)
    ELSE IF RaisesForStatus(transport.status_code) THEN Raised("HTTPStatusError", "HTTPStatusError")
    ELSE IF ~IsJson(transport.body) THEN Raised("JSONDecodeError", "JSONDecodeError")
    ELSE Returned(JsonValue(transport.body))

\* EndpointRequester._request: the try block and the first except clause
\* that matches; a clause that does not raise lets the method return None.
Request(transport) ==
    LET tried == TryRequest(transport) IN
    IF tried.state = "returned" THEN tried
    ELSE IF IsHttpx(tried.exc, "InvalidURL")
         THEN Raised("EndpointRequesterException", "Invalid URL - " \o tried.message)
    ELSE IF IsHttpx(tried.exc, "TimeoutException")
         THEN Raised("EndpointRequesterException", "Request timeout - " \o tried.message)
    ELSE IF IsHttpx(tried.exc, "RequestError")
         THEN Raised("EndpointRequesterException", "Request failed - " \o tried.message)
    ELSE IF IsHttpx(tried.exc, "HTTPStatusError")
         THEN handle_http_status_error(transport.status_code)
    ELSE IF tried.exc = "JSONDecodeError"
         THEN Raised("EndpointRequesterException", "Invalid JSON response - " \o tried.message)
    ELSE tried

InitRequester ==
    /\ pc = "request_start"
    /\ limit = DefaultGenresLimit
    /\ top_items = NotYet
    /\ lyrics_tasks = <<>>
    /\ lyrics_batch = NotYet
    /\ profile_tasks = <<>>
    /\ profiles_batch = NotYet
    /\ emotional_profiles = <<>>
    /\ outcome = NotYet
    /\ calls = NoCalls
    /\ log = <<>>
    /\ call_args \in [method : RequestMethods]
    /\ steps = <<>>
    /\ upstream = <<>>
    /\ top_artists = NotYet
    /\ response = NoResponse

\* get or post is called: _request awaits client.request.
RequesterCall ==
    /\ pc = "request_start"
    /\ pc' = "await_response"
    /\ calls' = [calls EXCEPT !.client_request = @ + 1]
    /\ UNCHANGED <<limit, top_items, lyrics_tasks, lyrics_batch, profile_tasks,
                   profiles_batch, emotional_profiles, outcome, log>>
    /\ UNCHANGED service_vars

\* client.request ends and _request returns or raises.
RequesterCompletes ==
    /\ pc = "await_response"
    /\ \E transport \in Transports :
        /\ upstream' = transport
        /\ outcome' = Request(transport)
    /\ pc' = "done"
    /\ UNCHANGED <<limit, top_items, lyrics_tasks, lyrics_batch, profile_tasks,
                   profiles_batch, emotional_profiles, calls, log>>
    /\ UNCHANGED <<call_args, steps, top_artists, response>>

NextRequester == RequesterCall \/ RequesterCompletes

SpecRequester == InitRequester /\ [][NextRequester]_vars

\* Every fetch of the program: a run is either one get_top_emotions with
\* its two batches or one call of EndpointRequester.get/post.
InitFetch == Init \/ InitRequester

NextFetch == Next \/ NextRequester

SpecFetch == InitFetch /\ [][NextFetch]_vars

----------------------------------------------------------------------------
(* SpotifyDataService (api.services.spotify) and the /data routes *)

\* The except clauses of a SpotifyDataService method around the get:
\* `catches_not_found` tells whether it has a clause for
\* EndpointRequesterNotFoundException.
ServiceRaises(requested, catches_not_found) ==
    IF requested.exc = "EndpointRequesterUnauthorisedException"
    THEN Raised("SpotifyDataServiceUnauthorisedException", "Invalid Spotify API access token")
    ELSE IF catches_not_found /\ requested.exc = "EndpointRequesterNotFoundException"
    THEN Raised("SpotifyDataServiceNotFoundException", "Requested Spotify item not found")
    ELSE Raised("SpotifyDataServiceException", "Failed to make request to Spotify API")

\* _create_track / _create_artist: TypeError and ValidationError both become
\* SpotifyDataServiceException.
create_item(data, type) ==
    IF data.type # "dict"
    THEN Raised("SpotifyDataServiceException", "Spotify data not of type dict")
    ELSE IF ~data.complete
    THEN Raised("SpotifyDataServiceException", "Failed to create item from Spotify API data")
    ELSE Returned([type |-> type, complete |-> TRUE])

\* SpotifyDataService.get_user_profile: `SpotifyProfileData(**data)` raises
\* TypeError for a body that is no mapping, and no clause catches it.
get_user_profile(requested) ==
    IF requested.state = "raised" THEN ServiceRaises(requested, FALSE)
    ELSE IF requested.value.type # "dict"
    THEN Raised("TypeError", "argument after ** must be a mapping")
    ELSE IF ~requested.value.complete
    THEN Raised("SpotifyDataServiceException", "Spotify API data validation failed")
    ELSE Returned([type |-> "SpotifyProfile", complete |-> TRUE])

\* SpotifyDataService._get_top_items_data followed by the creation of the
\* items: `data["items"]` raises KeyError (caught) for an object without
\* items and TypeError (not caught) for a body that is no object.
get_top_items_of_type(requested, type) ==
    IF requested.state = "raised" THEN ServiceRaises(requested, FALSE)
    ELSE IF requested.value.type # "dict"
    THEN Raised("TypeError", "indices must be integers")
    ELSE IF ~requested.value.complete
    THEN Raised("SpotifyDataServiceException", "No items key present in API data")
    ELSE Returned([type |-> type, complete |-> TRUE])

\* SpotifyDataService.get_track_by_id: _get_item_data_by_id, then _create_track.
get_track_by_id(requested) ==
    IF requested.state = "raised" THEN ServiceRaises(requested, TRUE)
    ELSE create_item(requested.value, "SpotifyTrack")

\* The try/except of POST /data/tracks/{track_id}.
TrackRouteResponse(result) ==
    IF result.state = "returned" THEN HTTPResponse(200, "", result.value)
    ELSE IF IsSubclass(result.exc, "SpotifyDataServiceNotFoundException")
         THEN HTTPResponse(404, "Could not find the requested track", <<>>)
    ELSE IF IsSubclass(result.exc, "SpotifyDataServiceException")
         THEN HTTPResponse(500, "Failed to retrieve the requested track", <<>>)
    ELSE global_exception_handler

InitRoutes ==
    /\ pc = "route_start"
    /\ limit = DefaultGenresLimit
    /\ top_items = NotYet
    /\ lyrics_tasks = <<>>
    /\ lyrics_batch = NotYet
    /\ profile_tasks = <<>>
    /\ profiles_batch = NotYet
    /\ emotional_profiles = <<>>
    /\ outcome = NotYet
    /\ calls = NoCalls
    /\ log = <<>>
    /\ ServiceInit

\* POST /data/me/profile
RouteGetProfile ==
    /\ pc = "route_start"
    /\ \E transport \in Transports :
        /\ upstream' = transport
        /\ outcome' = get_user_profile(Request(transport))
    /\ response' = MeRouteResponse(outcome', "Failed to retrieve the user's profile")
    /\ call_args' = RouteCall("/me/profile")
    /\ pc' = "answered"
    /\ UNCHANGED <<limit, top_items, lyrics_tasks, lyrics_batch, profile_tasks,
                   profiles_batch, emotional_profiles, calls, log>>
    /\ UNCHANGED <<steps, top_artists>>

\* POST /data/me/top/artists
RouteGetTopArtists ==
    /\ pc = "route_start"
    /\ \E transport \in Transports :
        /\ upstream' = transport
        /\ outcome' = get_top_items_of_type(Request(transport), "list[SpotifyArtist]")
    /\ response' = MeRouteResponse(outcome', "Failed to retrieve the user's top artists")
    /\ call_args' = RouteCall("/me/top/artists")
    /\ pc' = "answered"
    /\ UNCHANGED <<limit, top_items, lyrics_tasks, lyrics_batch, profile_tasks,
                   profiles_batch, emotional_profiles, calls, log>>
    /\ UNCHANGED <<steps, top_artists>>

\* POST /data/me/top/tracks
RouteGetTopTracks ==
    /\ pc = "route_start"
    /\ \E transport \in Transports :
        /\ upstream' = transport
        /\ outcome' = get_top_items_of_type(Request(transport), "list[SpotifyTrack]")
    /\ response' = MeRouteResponse(outcome', "Failed to retrieve the user's top tracks")
    /\ call_args' = RouteCall("/me/top/tracks")
    /\ pc' = "answered"
    /\ UNCHANGED <<limit, top_items, lyrics_tasks, lyrics_batch, profile_tasks,
                   profiles_batch, emotional_profiles, calls, log>>
    /\ UNCHANGED <<steps, top_artists>>

\* POST /data/tracks/{track_id}
RouteGetTrackById ==
    /\ pc = "route_start"
    /\ \E transport \in Transports :
        /\ upstream' = transport
        /\ outcome' = get_track_by_id(Request(transport))
    /\ response' = TrackRouteResponse(outcome')
    /\ call_args' = RouteCall("/tracks/{track_id}")
    /\ pc' = "answered"
    /\ UNCHANGED <<limit, top_items, lyrics_tasks, lyrics_batch, profile_tasks,
                   profiles_batch, emotional_profiles, calls, log>>
    /\ UNCHANGED <<steps, top_artists>>

NextRoutes ==
    \/ RouteGetProfile
    \/ RouteGetTopArtists
    \/ RouteGetTopTracks
    \/ RouteGetTopGenres
    \/ RouteGetTrackById

SpecRoutes == InitRoutes /\ [][NextRoutes]_vars

----------------------------------------------------------------------------
(* SpotifyAuthService.refresh_tokens (api.services.spotify and api.services.music) *)

\* A key that the token response does not have, and the JSON value null
\* (Python None).
KeyAbsent == "<absent>"

JsonNull == "<null>"

\* The refresh tokens callers hold.
OldRefreshTokens == {"old_refresh", "refresh", "expired_refresh"}

\* The bodies the token endpoint answers with: an object with or without
\* the two tokens, or a JSON value that is no object.
TokenResponses ==
    { [type |-> "dict", access_token |-> a, refresh_token |-> r] :
        a \in {KeyAbsent, JsonNull, "new_access"},
        r \in {KeyAbsent, JsonNull, "new_refresh"} }
        \cup { [type |-> t, access_token |-> KeyAbsent, refresh_token |-> KeyAbsent] :
                 t \in {"list", "NoneType"} }

\* How endpoint_requester.post ends for the token request.
TokenPosts ==
    { Returned(token_data) : token_data \in TokenResponses }
        \cup { Raised(exc, "Request failed") :
                 exc \in {"EndpointRequesterException",
                          "EndpointRequesterUnauthorisedException",
                          "EndpointRequesterNotFoundException"} }

\* `TokenData(access_token=..., refresh_token=...)`: both fields are declared
\* str; `optional_refresh` stands for a declaration that admits None for
\* refresh_token.
TokenData(access_token, refresh_token, optional_refresh) ==
    IF access_token = JsonNull \/ (refresh_token = JsonNull /\ ~optional_refresh)
    THEN Raised("ValidationError", "Input should be a valid string")
    ELSE Returned([access_token |-> access_token, refresh_token |-> refresh_token])

\* `d.get(key)` / `d.get(key, default)` on the decoded object.
DictGet(value, default) == IF value = KeyAbsent THEN default ELSE value

\* api.services.spotify.SpotifyAuthService.refresh_tokens once the post has
\* ended: `token_data["access_token"]`, `token_data.get("refresh_token")`;
\* the clauses catch EndpointRequesterException and KeyError.
refresh_tokens_spotify(refresh_token, posted, optional_refresh) ==
    IF posted.state = "raised"
    THEN IF IsSubclass(posted.exc, "EndpointRequesterException")
         THEN Raised("SpotifyAuthServiceException",
                     "Spotify API token request failed - " \o posted.message)
         ELSE posted
    ELSE IF posted.value.type # "dict"
    THEN Raised("TypeError", "indices must be integers or object is not subscriptable")
    ELSE IF posted.value.access_token = KeyAbsent
    THEN Raised("SpotifyAuthServiceException", "No access token returned")
    ELSE TokenData(posted.value.access_token,
                   DictGet(posted.value.refresh_token, JsonNull), optional_refresh)

\* api.services.music.SpotifyAuthService.refresh_tokens once the post has
\* ended: `token_data.get("access_token")`,
\* `token_data.get("refresh_token", refresh_token)`; the clauses catch
\* EndpointRequesterException and pydantic.ValidationError.
refresh_tokens_music(refresh_token, posted) ==
    IF posted.state = "raised"
    THEN IF IsSubclass(posted.exc, "EndpointRequesterException")
         THEN Raised("SpotifyAuthServiceException",
                     "Spotify API token request failed - " \o posted.message)
         ELSE posted
    ELSE IF posted.value.type # "dict"
    THEN Raised("AttributeError", "object has no attribute 'get'")
    ELSE LET tokens == TokenData(DictGet(posted.value.access_token, JsonNull),
                                 DictGet(posted.value.refresh_token, refresh_token), FALSE)
         IN  IF tokens.state = "raised"
             THEN Raised("SpotifyAuthServiceException", "Failed to validate tokens - " \o tokens.message)
             ELSE tokens

InitAuth ==
    /\ pc = "auth_start"
    /\ limit = DefaultGenresLimit
    /\ top_items = NotYet
    /\ lyrics_tasks = <<>>
    /\ lyrics_batch = NotYet
    /\ profile_tasks = <<>>
    /\ profiles_batch = NotYet
    /\ emotional_profiles = <<>>
    /\ outcome = NotYet
    /\ calls = NoCalls
    /\ log = <<>>
    /\ call_args \in [service : {"spotify", "music"}, refresh_token : OldRefreshTokens]
    /\ steps = <<>>
    /\ upstream = <<>>
    /\ top_artists = NotYet
    /\ response = NoResponse

\* refresh_tokens is called and awaits endpoint_requester.post.
AuthCallPost ==
    /\ pc = "auth_start"
    /\ pc' = "await_token"
    /\ UNCHANGED <<limit, top_items, lyrics_tasks, lyrics_batch, profile_tasks,
                   profiles_batch, emotional_profiles, outcome, calls, log>>
    /\ UNCHANGED service_vars

\* The post ends and refresh_tokens of api.services.spotify returns or raises.
AuthSpotifyCompletes ==
    /\ pc = "await_token"
    /\ call_args.service = "spotify"
    /\ \E posted \in TokenPosts, optional_refresh \in BOOLEAN :
        /\ upstream' = posted
        /\ outcome' = refresh_tokens_spotify(call_args.refresh_token, posted, optional_refresh)
    /\ pc' = "done"
    /\ UNCHANGED <<limit, top_items, lyrics_tasks, lyrics_batch, profile_tasks,
                   profiles_batch, emotional_profiles, calls, log>>
    /\ UNCHANGED <<call_args, steps, top_artists, response>>

\* The post ends and refresh_tokens of api.services.music returns or raises.
AuthMusicCompletes ==
    /\ pc = "await_token"
    /\ call_args.service = "music"
    /\ \E posted \in TokenPosts :
        /\ upstream' = posted
        /\ outcome' = refresh_tokens_music(call_args.refresh_token, posted)
    /\ pc' = "done"
    /\ UNCHANGED <<limit, top_items, lyrics_tasks, lyrics_batch, profile_tasks,
                   profiles_batch, emotional_profiles, calls, log>>
    /\ UNCHANGED <<call_args, steps, top_artists, response>>

NextAuth == AuthCallPost \/ AuthSpotifyCompletes \/ AuthMusicCompletes

SpecAuth == InitAuth /\ [][NextAuth]_vars

----------------------------------------------------------------------------
(* Properties of the batch fetchers (checked under Spec) *)

\* The tasks whose post came back with a valid body / failed in any way.
SucceededTasks(tasks) == { i \in 1..Len(tasks) : tasks[i].done /\ tasks[i].post = "ok" }

FailedTasks(tasks) == { i \in 1..Len(tasks) : tasks[i].done /\ tasks[i].post /= "ok" }

\* The index of the k-th succeeding task, in input order.
KthSucceeded(tasks, k) ==
    CHOOSE i \in SucceededTasks(tasks) :
        Cardinality({ j \in SucceededTasks(tasks) : j <= i }) = k

BatchOver(batch) == batch.state /= "pending"

SurvivorsInOrder(tasks, batch) ==
    /\ batch.state = "returned"
    /\ Len(batch.value) = Len(tasks) - Cardinality(FailedTasks(tasks))
    /\ \A k \in 1..Len(batch.value) :
          /\ batch.value[k] = tasks[KthSucceeded(tasks, k)].item.value
          /\ batch.value[k].track_id = tasks[KthSucceeded(tasks, k)].request.track_id

\* C1: a batch of N requests of which F fail returns exactly N - F results,
\* the results of the succeeding items, in the order of their requests.
C1_SurvivorsInInputOrder ==
    /\ BatchOver(lyrics_batch) => SurvivorsInOrder(lyrics_tasks, lyrics_batch)
    /\ BatchOver(profiles_batch) => SurvivorsInOrder(profile_tasks, profiles_batch)

\* C1 witness: 3 lyrics requests, the middle one failed, 2 results; then 2
\* profile requests, the first one failed, 1 result.
C1_Witness ==
    /\ Len(lyrics_tasks) = 3 /\ lyrics_batch.state = "returned"
    /\ FailedTasks(lyrics_tasks) = {2} /\ Len(lyrics_batch.value) = 2
    /\ profiles_batch.state = "returned"
    /\ FailedTasks(profile_tasks) = {1} /\ Len(profiles_batch.value) = 1

AllFailed(tasks) == Len(tasks) >= 1 /\ FailedTasks(tasks) = 1..Len(tasks)

\* C2: when every item of a batch of N >= 1 fails, the batch returns the
\* empty list and raises nothing.
C2_AllFailedGivesEmptyList ==
    /\ (BatchOver(lyrics_batch) /\ AllFailed(lyrics_tasks))
          => lyrics_batch = Returned(<<>>)
    /\ (BatchOver(profiles_batch) /\ AllFailed(profile_tasks))
          => profiles_batch = Returned(<<>>)

\* C2 witness: a lyrics batch of 3 whose items all failed, in different ways.
C2_Witness ==
    /\ BatchOver(lyrics_batch) /\ Len(lyrics_tasks) = 3 /\ AllFailed(lyrics_tasks)
    /\ lyrics_tasks[1].post = "404" /\ lyrics_tasks[2].post = "error"
    /\ lyrics_tasks[3].post = "not_mapping"

AllFinished(tasks) ==
    \A i \in 1..Len(tasks) : tasks[i].done /\ tasks[i].post \in PostOutcomes

\* C3: a batch is over only when every one of its items has finished, with
\* a success or a failure; a failed item leaves no sibling unfinished.
C3_BatchWaitsForAll ==
    /\ BatchOver(lyrics_batch) => AllFinished(lyrics_tasks)
    /\ BatchOver(profiles_batch) => AllFinished(profile_tasks)
    /\ pc = "done" => AllFinished(lyrics_tasks) /\ AllFinished(profile_tasks)

\* C3 witness: the first item of a batch of 3 failed and both siblings
\* finished with a success before the batch returned.
C3_Witness ==
    /\ BatchOver(lyrics_batch) /\ Len(lyrics_tasks) = 3
    /\ FailedTasks(lyrics_tasks) = {1} /\ SucceededTasks(lyrics_tasks) = {2, 3}

PerItemExceptions ==
    { "LyricsServiceException", "LyricsServiceNotFoundException",
      "AnalysisServiceException", "TypeError" }

LoggedCount(what, tasks) ==
    \E k \in 1..Len(log) :
        log[k] = [what |-> what,
                  successes |-> Cardinality(SucceededTasks(tasks)),
                  total |-> Len(tasks)]

----------------------------------------------------------------------------
(* Properties of the stages of get_top_emotions (checked under Spec) *)

NoDataError(label) ==
    Raised("InsightsServiceException",
           "No " \o label \o " found. Cannot proceed further with analysis.")

\* C5: if get_top_items returns the empty list, get_top_emotions raises the
\* "No top tracks found..." InsightsServiceException and neither the lyrics
\* stage nor the emotion-profile stage is invoked.
C5_EmptyTracksShortCircuit ==
    (top_items.state = "returned" /\ Len(top_items.value) = 0) =>
        /\ pc = "done"
        /\ outcome = Raised("InsightsServiceException",
                 "No top tracks found. Cannot proceed further with analysis.")
        /\ calls.get_lyrics_list = 0 /\ calls.get_lyrics = 0
        /\ calls.get_emotional_profiles = 0 /\ calls.get_emotional_profile = 0
        /\ lyrics_batch = NotYet /\ profiles_batch = NotYet

\* C5 witness: get_top_items returned [] and the call is over.
C5_Witness ==
    top_items.state = "returned" /\ Len(top_items.value) = 0 /\ pc = "done"

\* C6: an empty lyrics batch ends the call with "No lyrics found..." and no
\* emotion-profile request; an empty emotion-profile batch ends it with
\* "No emotional profiles found..." and no aggregation.
C6_EmptyStageFailsFast ==
    /\ (lyrics_batch.state = "returned" /\ Len(lyrics_batch.value) = 0) =>
          /\ pc = "done"
          /\ outcome = Raised("InsightsServiceException",
                   "No lyrics found. Cannot proceed further with analysis.")
          /\ calls.get_emotional_profiles = 0 /\ calls.get_emotional_profile = 0
          /\ calls.process_emotions = 0
    /\ (profiles_batch.state = "returned" /\ Len(profiles_batch.value) = 0) =>
          /\ pc = "done"
          /\ outcome = Raised("InsightsServiceException",
                   "No emotional profiles found. Cannot proceed further with analysis.")
          /\ calls.process_emotions = 0

\* C6 witness: lyrics were found for 2 tracks and both profile fetches failed.
C6_Witness ==
    /\ lyrics_batch.state = "returned" /\ Len(lyrics_batch.value) = 2
    /\ profiles_batch.state = "returned" /\ Len(profiles_batch.value) = 0
    /\ pc = "done"

SystemicTasks(tasks) ==
    { i \in 1..Len(tasks) : tasks[i].done /\ tasks[i].post \in SystemicOutcomes }

----------------------------------------------------------------------------
(* Properties of the emotion aggregator (checked under SpecAgg) *)

\* The samples given to _process_emotions and the list that came back.
Samples == emotional_profiles

TopEmotions == outcome.value

Aggregated == pc = "done" /\ outcome.state = "returned"

RECURSIVE ChannelSumUpTo(_, _)
ChannelSumUpTo(emotion, n) ==
    IF n = 0 THEN 0
    ELSE ChannelSumUpTo(emotion, n - 1) + Samples[n].emotional_profile[emotion]

\* The sum of a channel's fraction over all the samples (units of 1/One).
ChannelSum(emotion) == ChannelSumUpTo(emotion, Len(Samples))

Distance(a, b) == IF a >= b THEN a - b ELSE b - a

Smaller(a, b) == IF a <= b THEN a ELSE b

\* p hundredths is sum/M rounded to 2 decimals: no hundredth is nearer to
\* the exact quotient, and of two equally near ones p is the even one.
IsRoundedAverage(p, sum, M) ==
    LET twice == 2 * Distance(100 * sum, p * One * M)
    IN  /\ twice <= One * M
        /\ twice = One * M => p % 2 = 0

\* C8: for M >= 1 samples every returned TopEmotion has percentage equal to
\* (the channel's sum over the M samples) / M rounded to 2 decimals, and the
\* returned list has at most min(15, K) entries.
C8_AverageRoundedAndBounded ==
    (Aggregated /\ Len(Samples) >= 1) =>
        /\ \A i \in 1..Len(TopEmotions) :
              IsRoundedAverage(TopEmotions[i].percentage,
                               ChannelSum(TopEmotions[i].name), Len(Samples))
        /\ Len(TopEmotions) <= Smaller(Len(Emotions), limit)

\* C8 witness: 2 samples; a channel with sum 0.25 reported as 0.12 (a tie,
\* rounded to even), a channel with sum 0.25 + 1/256 reported as 0.13, and
\* a list of 3 channels cut to the limit 2.
C8_Witness ==
    /\ Aggregated /\ Len(Samples) = 2 /\ limit = 2 /\ Len(TopEmotions) = 2
    /\ \A e \in ActiveEmotions : ChannelSum(e) > 0
    /\ \E i \in 1..2 : /\ ChannelSum(TopEmotions[i].name) = 1600
                       /\ TopEmotions[i].percentage = 12
    /\ \E i \in 1..2 : /\ ChannelSum(TopEmotions[i].name) = 1625
                       /\ TopEmotions[i].percentage = 13

ChannelMax(emotion) ==
    CHOOSE m \in { Samples[i].emotional_profile[emotion] : i \in 1..Len(Samples) } :
        \A i \in 1..Len(Samples) : Samples[i].emotional_profile[emotion] <= m

\* The first sample, in input order, that has the channel's maximal fraction.
FirstAtMax(emotion) ==
    CHOOSE i \in 1..Len(Samples) :
        /\ Samples[i].emotional_profile[emotion] = ChannelMax(emotion)
        /\ \A j \in 1..(i - 1) :
              Samples[j].emotional_profile[emotion] /= ChannelMax(emotion)

\* C9: the track_id of every returned TopEmotion is the id of the first
\* sample in input order whose fraction for the channel is the maximum over
\* all samples (of two samples with the same maximum, the earlier one).
C9_MaxTrackIsFirstAtMax ==
    (Aggregated /\ Len(Samples) >= 1) =>
        \A i \in 1..Len(TopEmotions) :
            TopEmotions[i].track_id = Samples[FirstAtMax(TopEmotions[i].name)].track_id

\* C9 witness: two samples with the same maximal fraction 0.25 for sadness;
\* sadness is returned with the first sample's track id.
C9_Witness ==
    /\ Aggregated /\ Len(Samples) = 2
    /\ Samples[1].emotional_profile["sadness"] = 1600
    /\ Samples[2].emotional_profile["sadness"] = 1600
    /\ \E i \in 1..Len(TopEmotions) :
          /\ TopEmotions[i].name = "sadness"
          /\ TopEmotions[i].track_id = Samples[1].track_id
          /\ TopEmotions[i].track_id /= Samples[2].track_id

\* The position of a channel in the declaration of EmotionalProfile.
DeclarationIndex(emotion) == CHOOSE k \in 1..Len(Emotions) : Emotions[k] = emotion

\* C10: the returned list is non-increasing by rounded average, and entries
\* with equal rounded averages are in the channels' declaration order.
C10_RankedWithStableTies ==
    Aggregated =>
        \A i, j \in 1..Len(TopEmotions) :
            i < j =>
                /\ TopEmotions[i].percentage >= TopEmotions[j].percentage
                /\ TopEmotions[i].percentage = TopEmotions[j].percentage =>
                      DeclarationIndex(TopEmotions[i].name)
                         < DeclarationIndex(TopEmotions[j].name)

\* C10 witness: three channels returned; defiance, declared after sadness,
\* is ranked first with a greater average, and sadness and spirituality
\* follow with equal averages in declaration order.
C10_Witness ==
    /\ Aggregated /\ Len(TopEmotions) = 3
    /\ TopEmotions[1].name = "defiance"
    /\ TopEmotions[2].name = "sadness"
    /\ TopEmotions[3].name = "spirituality"
    /\ TopEmotions[1].percentage > TopEmotions[2].percentage
    /\ TopEmotions[2].percentage = TopEmotions[3].percentage
    /\ TopEmotions[3].percentage > 0


\* The result get_top_emotions would return for the same samples and limit k.
ResultForLimit(k) == SliceTo(process_emotions(Samples), k)

\* The first k entries of a list (all of it when it is shorter).
FirstEntries(s, k) == SubSeq(s, 1, IF k < Len(s) THEN k ELSE Len(s))

\* C11: for the same samples and limits 1 <= K <= K', the list returned for
\* limit K is exactly the first K entries of the list returned for limit K'.
C11_SmallerLimitIsPrefix ==
    Aggregated =>
        \A k2 \in limit..(MaxLimit + 1) :
            TopEmotions = FirstEntries(ResultForLimit(k2), limit)

\* A run with samples whose limit is below a larger admissible limit, so the
\* prefix relation is between two different lists.
C11_Witness ==
    /\ Aggregated
    /\ Len(Samples) >= 1
    /\ limit < MaxLimit
    /\ Len(TopEmotions) = limit
    /\ Len(ResultForLimit(MaxLimit)) > limit


----------------------------------------------------------------------------
(* Genre aggregator *)

\* get_top_genres returned a ranking.
GenresRanked == pc = "done" /\ top_artists.state = "returned" /\ outcome.state = "returned"

TopGenres == outcome.value

\* The places (artist, position) where a label stands in the artists' genre lists.
Tags(artists) == { <<a, i>> \in (1..Len(artists)) \X (1..MaxGenres) :
                      i <= Len(artists[a].genres) }

Occurrences(artists, genre) ==
    Cardinality({ tag \in Tags(artists) : artists[tag[1]].genres[tag[2]] = genre })

RECURSIVE SumOfCounts(_, _)
SumOfCounts(top_genres, n) ==
    IF n = 0 THEN 0 ELSE SumOfCounts(top_genres, n - 1) + top_genres[n].count

FirstSeen(artists, genre) ==
    LET all_genres == AllGenres(artists, Len(artists))
    IN  CHOOSE i \in 1..Len(all_genres) :
            /\ all_genres[i] = genre
            /\ \A j \in 1..(i - 1) : all_genres[j] # genre

\* C13: two genres with equal counts are ranked in the order of their first
\* appearance in the flattened genre sequence.
C13_TiesByFirstSeen ==
    GenresRanked =>
        \A i, j \in 1..Len(TopGenres) :
            (i < j /\ TopGenres[i].count = TopGenres[j].count)
                => FirstSeen(top_artists.value, TopGenres[i].name)
                       < FirstSeen(top_artists.value, TopGenres[j].name)

\* Two genres tie behind a more frequent genre that was seen after them.
C13_Witness ==
    /\ GenresRanked
    /\ Len(TopGenres) = 3
    /\ TopGenres[2].count = TopGenres[3].count
    /\ TopGenres[1].count > TopGenres[2].count
    /\ FirstSeen(top_artists.value, TopGenres[1].name)
           > FirstSeen(top_artists.value, TopGenres[3].name)

GenresAnswered == pc = "answered"

\* C15: a request for the top genres with a limit K >= 1 is answered with the
\* first K entries of the full count-descending ranking (at most K entries),
\* not with a failure.
C15_RouteReturnsTopK ==
    GenresAnswered =>
        /\ response.status_code = 200
        /\ Len(response.body) <= limit
        /\ response.body = FirstEntries(get_top_genres(upstream).value, limit)


----------------------------------------------------------------------------
(* tag_lyrics_with_emotion *)

\* The three steps of tag_lyrics_with_emotion, in program order.
TagSteps == <<"get_item_by_id", "get_lyrics", "get_emotional_tags">>

\* C16: the three steps run strictly in sequence (a step is started only
\* after the previous one succeeded, each at most once), and when a step
\* fails the call ends with an InsightsServiceException whose message wraps
\* the failing service's message, no later step having been invoked.
C16_SequentialAndWrapped ==
    /\ Len(steps) <= Len(TagSteps)
    /\ \A k \in 1..Len(steps) : steps[k].service = TagSteps[k]
    /\ \A k \in 1..(Len(steps) - 1) :
          steps[k].result.type # "pending" /\ ~IsException(steps[k].result)
    /\ calls.get_item_by_id = Cardinality({k \in 1..Len(steps) : k = 1})
    /\ calls.get_lyrics = Cardinality({k \in 1..Len(steps) : k = 2})
    /\ calls.get_emotional_tags = Cardinality({k \in 1..Len(steps) : k = 3})
    /\ \A k \in 1..Len(steps) :
          IsException(steps[k].result) =>
              /\ k = Len(steps)
              /\ pc = "done"
              /\ outcome = Raised("InsightsServiceException",
                                  "Service failure - " \o steps[k].result.message)


----------------------------------------------------------------------------
(* EndpointRequester *)

\* The request of get/post is over.
Requested == pc = "done" /\ call_args.method \in RequestMethods

\* The request succeeded: a 2XX response with a JSON body.
RequestSucceeded ==
    /\ upstream.exc = ""
    /\ upstream.status_code \in 200..299
    /\ upstream.body \in {"{...}", "{}", "[...]", "null"}

\* C17: get/post map every transport outcome to exactly one result: a 2XX
\* response with valid JSON returns the decoded body; status 401 raises
\* EndpointRequesterUnauthorisedException, status 404
\* EndpointRequesterNotFoundException; every other failure (another non-2XX
\* status, timeout, request error, invalid URL, invalid JSON) raises the
\* generic EndpointRequesterException; nothing is returned after a failure.
C17_OutcomeMapping ==
    Requested =>
        /\ RequestSucceeded =>
              /\ outcome.state = "returned"
              /\ outcome.value.type =
                    (CASE upstream.body \in {"{...}", "{}"} -> "dict"
                       [] upstream.body = "[...]" -> "list"
                       [] OTHER -> "NoneType")
              /\ outcome.value.complete = (upstream.body = "{...}")
        /\ ~RequestSucceeded =>
              /\ outcome.state = "raised"
              /\ outcome.exc =
                    (IF upstream.exc = "" /\ upstream.status_code = 401
                     THEN "EndpointRequesterUnauthorisedException"
                     ELSE IF upstream.exc = "" /\ upstream.status_code = 404
                     THEN "EndpointRequesterNotFoundException"
                     ELSE "EndpointRequesterException")

\* A request answered with a status that is neither 2XX, 401 nor 404 has
\* ended with the generic exception.
C17_Witness ==
    /\ Requested
    /\ upstream.exc = ""
    /\ upstream.status_code = 503
    /\ outcome.state = "raised"
    /\ outcome.exc = "EndpointRequesterException"


----------------------------------------------------------------------------
(* Routes *)

\* The routes of /data/me that are backed by SpotifyDataService, with the
\* detail each reports for a SpotifyDataServiceException.
MeRouteDetail ==
    [r \in {"/me/profile", "/me/top/artists", "/me/top/tracks", "/me/top/genres"} |->
        CASE r = "/me/profile" -> "Failed to retrieve the user's profile"
          [] r = "/me/top/artists" -> "Failed to retrieve the user's top artists"
          [] r = "/me/top/tracks" -> "Failed to retrieve the user's top tracks"
          [] OTHER -> "Failed to retrieve the user's top genres"]

\* A route has answered a request in which the service call raised.
RouteFailed(routes) ==
    /\ pc = "answered"
    /\ call_args.route \in routes
    /\ outcome.state = "raised"

\* C18: on a /data/me route backed by the catalog service, a
\* SpotifyDataServiceUnauthorisedException is answered with 401 "Invalid
\* access token" (never with 500), any other SpotifyDataServiceException
\* with 500 and the detail of the route, and any other exception with 500
\* "Something went wrong. Please try again later.".
C18_MeRouteErrorMapping ==
    RouteFailed(DOMAIN MeRouteDetail) =>
        IF outcome.exc = "SpotifyDataServiceUnauthorisedException"
        THEN response.status_code = 401 /\ response.detail = "Invalid access token"
        ELSE IF outcome.exc \in {"SpotifyDataServiceException",
                                 "SpotifyDataServiceNotFoundException"}
        THEN response.status_code = 500 /\ response.detail = MeRouteDetail[call_args.route]
        ELSE /\ response.status_code = 500
             /\ response.detail = "Something went wrong. Please try again later."

\* The catalog service rejected the access token of a request for the top
\* tracks and the route has answered.
C18_Witness ==
    /\ RouteFailed({"/me/top/tracks"})
    /\ outcome.exc = "SpotifyDataServiceUnauthorisedException"
    /\ response.status_code = 401

\* C19: POST /data/tracks/{track_id} answers 401 "Invalid access token" when
\* the catalog service raises SpotifyDataServiceUnauthorisedException, 404
\* when it raises SpotifyDataServiceNotFoundException and 500 "Failed to
\* retrieve the requested track" for any other SpotifyDataServiceException.
C19_TrackRouteErrorMapping ==
    RouteFailed({"/tracks/{track_id}"}) =>
        /\ outcome.exc = "SpotifyDataServiceUnauthorisedException" =>
              response.status_code = 401 /\ response.detail = "Invalid access token"
        /\ outcome.exc = "SpotifyDataServiceNotFoundException" =>
              response.status_code = 404
        /\ outcome.exc = "SpotifyDataServiceException" =>
              /\ response.status_code = 500
              /\ response.detail = "Failed to retrieve the requested track"


----------------------------------------------------------------------------
(* Token refresh *)

\* refresh_tokens has ended on a token response that is a JSON object.
TokensAnswered ==
    /\ pc = "done"
    /\ upstream.state = "returned"
    /\ upstream.value.type = "dict"

\* C20: refresh_tokens(old_refresh) returns TokenData with the access token
\* newly issued by the upstream and with the upstream's new refresh token
\* when the response has one, otherwise with the caller's old_refresh; a
\* response without an access token gives SpotifyAuthServiceException.
C20_RefreshKeepsOldToken ==
    TokensAnswered =>
        LET token_data == upstream.value IN
        /\ token_data.access_token \notin {KeyAbsent, JsonNull} =>
              /\ outcome.state = "returned"
              /\ outcome.value.access_token = token_data.access_token
              /\ outcome.value.refresh_token =
                    (IF token_data.refresh_token \in {KeyAbsent, JsonNull}
                     THEN call_args.refresh_token
                     ELSE token_data.refresh_token)
        /\ token_data.access_token = KeyAbsent =>
              /\ outcome.state = "raised"
              /\ outcome.exc = "SpotifyAuthServiceException"


\* C21: get_top_emotions called with a limit <= 0 ends with the
\* InsightsServiceException "Limit must be positive." and never with a list
\* of emotions.
C21_NonPositiveLimitRaises ==
    (limit <= 0 /\ pc = "done") =>
        /\ outcome.state = "raised"
        /\ outcome.exc = "InsightsServiceException"
        /\ outcome.message = "Limit must be positive."


(* Invocation counts *)

\* get_top_emotions is under way or over (not a lone requester call).
InPipeline == DOMAIN call_args = {} /\ pc \notin {"request_start", "await_response"}

\* The lyrics batch was started: get_lyrics_list was called with one request
\* per top track.
LyricsBatchStarted ==
    /\ top_items.state = "returned"
    /\ Len(top_items.value) > 0

\* The profiles batch was started: get_emotional_profiles was called with
\* one request per lyrics document.
ProfilesBatchStarted ==
    /\ lyrics_batch.state = "returned"
    /\ Len(lyrics_batch.value) > 0

\* The per-item operation was invoked `invoked` times for `n` requests, one
\* task per request.
InvokedOncePerRequest(batches, invoked, tasks, n) ==
    /\ batches = 1
    /\ invoked = n
    /\ Len(tasks) = n

\* Invocation counts of the moment.
CountsAreExact ==
    /\ IF LyricsBatchStarted
       THEN InvokedOncePerRequest(calls.get_lyrics_list, calls.get_lyrics,
                                  lyrics_tasks, Len(top_items.value))
       ELSE calls.get_lyrics_list = 0 /\ calls.get_lyrics = 0 /\ lyrics_tasks = <<>>
    /\ IF ProfilesBatchStarted
       THEN InvokedOncePerRequest(calls.get_emotional_profiles,
                                  calls.get_emotional_profile,
                                  profile_tasks, Len(lyrics_batch.value))
       ELSE /\ calls.get_emotional_profiles = 0
            /\ calls.get_emotional_profile = 0
            /\ profile_tasks = <<>>
    /\ calls.client_request =
          IF pc \in {"await_response"} \/ (pc = "done" /\ ~InPipeline) THEN 1 ELSE 0

\* In one step no finished item is run again and no started batch gets a
\* further invocation or loses one.
NothingRunTwice ==
    /\ \A i \in 1..Len(lyrics_tasks) :
          lyrics_tasks[i].done =>
              /\ Len(lyrics_tasks') = Len(lyrics_tasks)
              /\ lyrics_tasks'[i] = lyrics_tasks[i]
    /\ \A i \in 1..Len(profile_tasks) :
          profile_tasks[i].done =>
              /\ Len(profile_tasks') = Len(profile_tasks)
              /\ profile_tasks'[i] = profile_tasks[i]
    /\ LyricsBatchStarted => calls'.get_lyrics = calls.get_lyrics
    /\ ProfilesBatchStarted => calls'.get_emotional_profile = calls.get_emotional_profile
    /\ calls.client_request = 1 => calls'.client_request = 1

\* C22: in a batch fetch of N requests the per-item operation is invoked
\* exactly once per request, N times in all: a failed item is never run
\* again, none is skipped or issued twice; and one get/post call of the
\* EndpointRequester issues exactly one client request.
C22_InvokedExactlyOnce == [](CountsAreExact) /\ [][NothingRunTwice]_vars

\* Both batches are over, each with a failed item among several, and every
\* item was invoked once.
C22_Witness ==
    /\ pc = "done"
    /\ InPipeline
    /\ BatchOver(profiles_batch)
    /\ FailedTasks(lyrics_tasks) /= {}
    /\ FailedTasks(profile_tasks) /= {}
    /\ calls.get_lyrics = MaxTracks
    /\ calls.get_emotional_profile = 2


(* Completion order *)

\* What the per-item fetches of a batch produce, by input position, from the
\* outcome of each item's post alone.
ItemsByInput(tasks, fetch(_, _)) ==
    [i \in 1..Len(tasks) |-> fetch(tasks[i].request, tasks[i].post)]

\* The documents a finished batch owes its caller: the successes by input
\* position.
ExpectedBatch(tasks, fetch(_, _), class) ==
    LET items == ItemsByInput(tasks, fetch)
        ok == { i \in 1..Len(items) : items[i].type = class }
        Kth(k) == CHOOSE i \in ok : Cardinality({ j \in ok : j < i }) = k - 1
    IN  [k \in 1..Cardinality(ok) |-> items[Kth(k)].value]

ExpectedLyrics == ExpectedBatch(lyrics_tasks, get_lyrics, "LyricsResponse")

ExpectedProfiles ==
    ExpectedBatch(profile_tasks, get_emotional_profile, "EmotionalProfileResponse")

\* The tasks of the last gather did not complete in input order.
CompletedOutOfOrder == \E k \in 1..(Len(steps) - 1) : steps[k] > steps[k + 1]

\* C23: for fixed per-item outcomes the result of a batch fetch, and so the
\* result of get_top_emotions, is the same whatever the order in which the
\* items complete: it is determined by the outcomes in input order.
C23_CompletionOrderIrrelevant ==
    /\ BatchOver(lyrics_batch) => lyrics_batch = Returned(ExpectedLyrics)
    /\ BatchOver(profiles_batch) => profiles_batch = Returned(ExpectedProfiles)
    /\ (pc = "done" /\ BatchOver(profiles_batch)) =>
          outcome = IF Len(ExpectedProfiles) = 0
                    THEN NoDataError("emotional profiles")
                    ELSE Returned(SliceTo(process_emotions(ExpectedProfiles), limit))

\* get_top_emotions returned a list although the last profile fetch of the
\* input was the first to complete and an item in between failed.
C23_Witness ==
    /\ pc = "done"
    /\ outcome.state = "returned"
    /\ Len(profile_tasks) = MaxTracks
    /\ FailedTasks(profile_tasks) /= {}
    /\ steps[1] = MaxTracks
    /\ CompletedOutOfOrder


(* Stages *)

\* How far get_top_emotions has come: the stages it has entered, in order.
StagesEntered ==
    <<calls.get_top_items, calls.get_lyrics_list,
      calls.get_emotional_profiles, calls.process_emotions>>

\* C24: get_top_emotions runs its stages in the order tracks, lyrics,
\* emotion profiles, aggregation, with a barrier between them: no profile
\* request exists before every lyrics fetch has finished, and the
\* aggregation starts only after every profile fetch has finished.
C24_StagesInOrderWithBarriers ==
    /\ \A k \in 1..3 : StagesEntered[k + 1] <= StagesEntered[k]
    /\ \A k \in 1..4 : StagesEntered[k] <= 1
    /\ calls.get_lyrics_list = 1 => top_items.state = "returned"
    /\ (calls.get_emotional_profiles = 1 \/ Len(profile_tasks) > 0) =>
          /\ AllFinished(lyrics_tasks)
          /\ lyrics_batch.state = "returned"
    /\ calls.process_emotions = 1 =>
          /\ AllFinished(profile_tasks)
          /\ profiles_batch.state = "returned"
    /\ pc = "await_top_items" => Len(lyrics_tasks) = 0
    /\ pc = "await_lyrics" => Len(profile_tasks) = 0 /\ calls.process_emotions = 0
    /\ pc = "await_profiles" => calls.process_emotions = 0 /\ outcome = NotYet

\* The aggregation ran after a full lyrics batch of which one fetch failed
\* and a profiles batch of which one fetch failed.
C24_Witness ==
    /\ StagesEntered = <<1, 1, 1, 1>>
    /\ Len(lyrics_tasks) = MaxTracks
    /\ Cardinality(FailedTasks(lyrics_tasks)) = 1
    /\ Cardinality(FailedTasks(profile_tasks)) = 1
    /\ outcome.state = "returned"


(* Requests *)

\* The requests of a batch, by position.
RequestsOf(tasks) == [i \in 1..Len(tasks) |-> tasks[i].request]

\* The ids of the tracks whose lyrics fetch failed.
TracksWithoutLyrics == { lyrics_tasks[i].request.track_id : i \in FailedTasks(lyrics_tasks) }

\* C25: get_top_emotions builds one lyrics request per fetched track, in
\* track order, with that track's id, primary artist name and title, and one
\* emotion-profile request per lyrics document the lyrics batch returned, in
\* that order, with the document's track id and lyric text; a track whose
\* lyrics fetch failed gets no profile request.
C25_OneRequestPerItem ==
    /\ LyricsBatchStarted =>
          /\ Len(lyrics_tasks) = Len(top_items.value)
          /\ \A i \in 1..Len(top_items.value) :
                /\ RequestsOf(lyrics_tasks)[i].track_id = top_items.value[i].id
                /\ RequestsOf(lyrics_tasks)[i].artist_name = top_items.value[i].artist_name
                /\ RequestsOf(lyrics_tasks)[i].track_title = top_items.value[i].name
                /\ DOMAIN RequestsOf(lyrics_tasks)[i] =
                      {"track_id", "artist_name", "track_title"}
    /\ ~LyricsBatchStarted => Len(lyrics_tasks) = 0
    /\ ProfilesBatchStarted =>
          /\ Len(profile_tasks) = Len(lyrics_batch.value)
          /\ \A i \in 1..Len(lyrics_batch.value) :
                /\ RequestsOf(profile_tasks)[i].track_id = lyrics_batch.value[i].track_id
                /\ RequestsOf(profile_tasks)[i].lyrics = lyrics_batch.value[i].lyrics
                /\ DOMAIN RequestsOf(profile_tasks)[i] = {"track_id", "lyrics"}
    /\ ~ProfilesBatchStarted => Len(profile_tasks) = 0
    /\ \A i \in 1..Len(profile_tasks) :
          RequestsOf(profile_tasks)[i].track_id \notin TracksWithoutLyrics

\* The profile requests were built for two of three tracks: the lyrics
\* fetch of the track in between failed.
C25_Witness ==
    /\ Len(lyrics_tasks) = 3
    /\ FailedTasks(lyrics_tasks) = {2}
    /\ Len(profile_tasks) = 2
    /\ RequestsOf(profile_tasks)[1].track_id = top_items.value[1].id
    /\ RequestsOf(profile_tasks)[2].track_id = top_items.value[3].id


(* Termination *)

\* get_top_emotions is over with a list or with an InsightsServiceException.
EndsAsDocumented ==
    \/ outcome.state = "returned"
    \/ outcome.state = "raised" /\ outcome.exc = "InsightsServiceException"

\* Every invocation ends and every started batch returns.
Terminates ==
    /\ <>(pc = "done")
    /\ (pc = "await_lyrics") ~> BatchOver(lyrics_batch)
    /\ (pc = "await_profiles") ~> BatchOver(profiles_batch)

\* C26: when every upstream call eventually completes, every batch fetch
\* eventually returns and get_top_emotions eventually ends, with a list of
\* TopEmotion or with an InsightsServiceException; it never waits for ever
\* on a batch in which an item failed.
C26_TerminatesAsDocumented == Terminates /\ [](pc = "done" => EndsAsDocumented)


(* Invocations of one service instance *)

\* Two recorded invocations received the same upstream responses.
SameResponses(a, b) == a.service = b.service /\ a.request = b.request

\* An invocation of another input ran between the first and the last.
RanInBetween == Len(steps) = 3 /\ ~SameResponses(steps[2], steps[1])

PositiveChannels ==
    { e \in EmotionSet : \E i \in 1..Len(Samples) : Samples[i].emotional_profile[e] > 0 }

\* The channels of the returned list.
ReturnedChannels == { TopEmotions[i].name : i \in 1..Len(TopEmotions) }

\* C28: the aggregator emits a channel if and only if some sample has a
\* strictly positive fraction for it (up to the cut at `limit`): a channel
\* that is 0 in every sample is left out, no returned entry has a null
\* track_id, every returned track_id is the id of a sample, and a channel
\* with a positive maximum is emitted even if its rounded average is 0.0.
C28_EmittedIffPositive ==
    Aggregated =>
        /\ ReturnedChannels \subseteq PositiveChannels
        /\ Cardinality(ReturnedChannels) = Len(TopEmotions)
        /\ Len(TopEmotions) = Smaller(limit, Cardinality(PositiveChannels))
        /\ \A i \in 1..Len(TopEmotions) :
              /\ TopEmotions[i].track_id /= None
              /\ \E s \in 1..Len(Samples) : Samples[s].track_id = TopEmotions[i].track_id
        /\ \A e \in PositiveChannels :
              (ChannelSum(e) * 200 < One * Len(Samples) /\ Len(TopEmotions) < limit) =>
                  \E i \in 1..Len(TopEmotions) :
                      TopEmotions[i].name = e /\ TopEmotions[i].percentage = 0

\* Two samples: sadness is 0 in both and left out, spirituality is 1/256 in
\* one of them and returned with the average 0.0 and that sample's id.
C28_Witness ==
    /\ Aggregated /\ Len(Samples) = 2 /\ limit = MaxLimit
    /\ "sadness" \notin PositiveChannels
    /\ "sadness" \notin ReturnedChannels
    /\ ChannelSum("spirituality") = 25
    /\ \E i \in 1..Len(TopEmotions) :
          /\ TopEmotions[i].name = "spirituality"
          /\ TopEmotions[i].percentage = 0
          /\ TopEmotions[i].track_id = Samples[1].track_id
          /\ Samples[1].emotional_profile["spirituality"] = 25


(* The averaging denominator *)

\* _process_emotions was called: the averaging step was reached.
AveragingReached == calls.process_emotions > 0

\* `result_count=len(emotional_profiles)` of the averaging step.
ResultCount == Len(emotional_profiles)

\* C29 (implicit): on every path through get_top_emotions the averaging
\* step is reached only with at least one emotion sample, so sum /
\* result_count is never computed with result_count = 0; without a sample
\* the call ends with the "No emotional profiles found" error instead.
C29_AveragingHasSamples ==
    /\ AveragingReached => ResultCount >= 1 /\ ResultCount = Len(profiles_batch.value)
    /\ (BatchOver(profiles_batch) /\ Len(profiles_batch.value) = 0) =>
          /\ ~AveragingReached
          /\ outcome = NoDataError("emotional profiles")

\* Of three tracks one alone got through both batches, and the averaging ran
\* with that one sample.
C29_Witness ==
    /\ AveragingReached
    /\ Len(lyrics_tasks) = MaxTracks
    /\ ResultCount = 1
    /\ outcome.state = "returned"
    /\ Len(outcome.value) >= 1

\* The ids of the tracks whose lyrics fetch and whose profile fetch both
\* succeeded.
Survivors ==
    { t \in TrackIds :
        /\ \E i \in SucceededTasks(lyrics_tasks) : lyrics_tasks[i].request.track_id = t
        /\ \E j \in SucceededTasks(profile_tasks) : profile_tasks[j].request.track_id = t }

\* The sum of a channel over the surviving tracks among the ids 1..n.
RECURSIVE SurvivorSumUpTo(_, _)
SurvivorSumUpTo(emotion, n) ==
    IF n = 0 THEN 0
    ELSE SurvivorSumUpTo(emotion, n - 1)
         + (IF n \in Survivors THEN UpstreamProfile(n)[emotion] ELSE 0)

SurvivorSum(emotion) == SurvivorSumUpTo(emotion, MaxTracks)

\* C30 (implicit): the averaging denominator M of get_top_emotions is the
\* number of tracks that survived both the lyrics batch and the profile
\* batch, not the number of top tracks fetched; a track whose lyrics fetch
\* or profile fetch failed adds to no channel sum, is not counted in M and
\* is never a channel's max track.
C30_DenominatorIsSurvivors ==
    (AveragingReached /\ outcome.state = "returned") =>
        /\ ResultCount = Cardinality(Survivors)
        /\ { emotional_profiles[i].track_id : i \in 1..ResultCount } = Survivors
        /\ \A i \in 1..Len(outcome.value) :
              /\ IsRoundedAverage(outcome.value[i].percentage,
                                  SurvivorSum(outcome.value[i].name),
                                  Cardinality(Survivors))
              /\ outcome.value[i].track_id \in Survivors

\* Three top tracks, one lost in the lyrics batch and one in the profile
\* batch: the one survivor's fraction 0.5 is reported as 0.5, not as 0.17.
C30_Witness ==
    /\ AveragingReached /\ outcome.state = "returned"
    /\ Len(top_items.value) = 3
    /\ Cardinality(FailedTasks(lyrics_tasks)) = 1
    /\ Cardinality(FailedTasks(profile_tasks)) = 1
    /\ Survivors = {2}
    /\ outcome.value[1].name = "defiance"
    /\ outcome.value[1].percentage = 50
    /\ outcome.value[1].track_id = 2

====
